---- MODULE Spec2Model ----
(***************************************************************************)
(* A model of the merge/enrichment engine of get-metrics-new.ts            *)
(* (enrichHuggingfaceModels and its helpers), of the provider aggregator's *)
(* batched fan-out (ProviderAggregator.fetchAllProviders), of the          *)
(* performance prober (testModelProvider) and of the pricing unit          *)
(* conversions (extractHFRouterData, BaseProviderFetcher.normalizePricing).*)
(*                                                                         *)
(* Conventions                                                             *)
(*  - An optional field is a sequence: << >> when the field is absent,     *)
(*    <<v>> when it is present with value v.                               *)
(*  - A string that the code inspects (a model id, a numeric string) is a  *)
(*    sequence of tokens; a string the code only compares is a TLA+ string.*)
(*  - A JavaScript number is an exact rational [n, d] in lowest terms.     *)
(*  - Objects the code mutates live on a heap and are named by address;    *)
(*    recHeap holds ProviderEntry objects, modelHeap holds HFModel objects.*)
(***************************************************************************)
EXTENDS Integers, Sequences, FiniteSets, TLC

VARIABLES
    \* ---- merge engine (enrichHuggingfaceModels) ----
    recHeap,        \* heap of ProviderEntry objects: Seq(Rec)
    modelHeap,      \* heap of HFModel objects: Seq([id, providers])
    recHeap0,       \* the record heap as it was when the merge was called
    modelHeap0,     \* the model heap as it was when the merge was called
    hfModels,       \* the caller's canonical list: Seq(model address)
    fetched,        \* what each selected fetcher returns: Seq([provider, entries])
    providerData,   \* aggregator result: Seq([provider, entries: Seq(rec address)])
    enrichedModels, \* the merge's output list: Seq(model address)
    stats,          \* Statistics
    matchedProviderData,  \* diagnostic snapshot list
    matchedProviderKeys,  \* set of match keys
    unmatchedCount, \* the count logged after the loop
    mpc,            \* position of the merge: "call" | "loop" | "tail" | "done"
    mi,             \* index of the next canonical model to process
    rerun,          \* << >> or <<deep value of a second merge of the same inputs>>
    refed,          \* << >> or <<deep value of a merge of the enriched list>>
    probed,         \* set of record addresses the prober has written
    \* ---- provider aggregator (fetchAllProviders) ----
    aggProviders,   \* selected provider names, in order
    aggConcurrent,  \* config.concurrent
    aggBatch,       \* index of the current batch (1-based), 0 before the call
    aggSlot,        \* per position of aggProviders: "idle" | "inflight" | "settled"
    aggOut,         \* per position: entries returned by the callback
    aggFetched,     \* per position: how fetchModels settled, and with what
    aggResults,     \* the results map: Seq([provider, entries])
    aggPc,          \* "call" | "await" | "done"
    aggLog,         \* positions in the order their fetchModels invocation started
    \* ---- performance prober (testModelProvider) ----
    clock,          \* wall clock, ms
    probe,          \* per probe: its position, timer and endpoint behaviour
    \* ---- rate-limited client (BaseProviderFetcher) ----
    fetcher,        \* the instance: its configuration and its three counters
    fcall,          \* the fetchWithRetry call in progress
    flog,           \* history: times of the outbound requests and limiter passes
    \* ---- pricing conversions ----
    priceIn,        \* the input of the conversion under test
    priceOut,       \* its result, << >> before the conversion ran
    \* ---- the run (main) ----
    main            \* options, position, the prober's triples and the written file

mergeVars == <<recHeap, modelHeap, recHeap0, modelHeap0, hfModels, fetched,
               providerData, enrichedModels, stats, matchedProviderData,
               matchedProviderKeys, unmatchedCount, mpc, mi,
               rerun, refed, probed>>
aggVars == <<aggProviders, aggConcurrent, aggBatch, aggSlot, aggOut, aggFetched,
             aggResults, aggPc, aggLog>>
probeVars == <<clock, probe>>
priceVars == <<priceIn, priceOut>>
fetchVars == <<fetcher, fcall, flog>>
mainVars == <<main>>
vars == <<mergeVars, aggVars, probeVars, priceVars, fetchVars, mainVars>>

(***************************************************************************)
(* Generic helpers                                                         *)
(***************************************************************************)
None == << >>
Some(v) == <<v>>
Has(o) == o /= << >>
Val(o) == o[1]

Range(s) == {s[i] : i \in 1..Len(s)}

\* s.slice(from, to) with 0-based, end-exclusive indices, as Array.prototype.slice
\* for 0 <= from.
Slice(s, from, to) ==
    LET hi == IF to > Len(s) THEN Len(s) ELSE to
    IN  IF from >= hi THEN << >> ELSE SubSeq(s, from + 1, hi)

\* String.prototype.includes on token sequences: b occurs in a contiguously.
Includes(a, b) ==
    \E k \in 0..(Len(a) - Len(b)) : SubSeq(a, k + 1, k + Len(b)) = b

StartsWith(a, p) == Len(a) >= Len(p) /\ SubSeq(a, 1, Len(p)) = p

RECURSIVE Gcd(_, _)
Gcd(a, b) == IF b = 0 THEN a ELSE Gcd(b, a % b)

\* The rational n/d (d > 0, n >= 0) in lowest terms.
Rat(n, d) == LET g == Gcd(n, d) IN [n |-> n \div g, d |-> d \div g]
RatMul(x, k) == Rat(x.n * k, x.d)
RatDiv(x, k) == Rat(x.n, x.d * k)
RatGE(x, k) == x.n >= k * x.d

(***************************************************************************)
(* Strings the code inspects                                               *)
(***************************************************************************)
\* String.prototype.toLowerCase over the tokens and names of the model: the
\* ones with an upper-case letter are listed, every other one is unchanged.
ToLowerCase(t) ==
    CASE t = "Foo" -> "foo"
      [] t = "Llama-" -> "llama-"
      [] t = "Meta-Llama-" -> "meta-llama-"
      [] t = "Featherless-AI" -> "featherless-ai"
      [] OTHER -> t

LowerSeq(s) == [i \in 1..Len(s) |-> ToLowerCase(s[i])]

\* The literal prefixes of the five patterns of normalizeModelId, in order.
patterns ==
    << <<"meta-llama", "/", "Meta-Llama-">>,
       <<"meta-llama", "/", "Llama-">>,
       <<"mistralai", "/">>,
       <<"google", "/">>,
       <<"anthropic", "/">> >>

\* modelId.split("/") then the last part.
AfterLastSlash(s) ==
    LET slashes == {i \in 1..Len(s) : s[i] = "/"}
        last == IF slashes = {} THEN 0
                ELSE CHOOSE i \in slashes : \A j \in slashes : j <= i
    IN  SubSeq(s, last + 1, Len(s))

normalizeModelId(modelId) ==
    LET hits == {k \in 1..Len(patterns) :
                    /\ StartsWith(modelId, patterns[k])
                    /\ Len(modelId) > Len(patterns[k])}     \* (.+) is not empty
    IN  IF hits /= {}
        THEN LET k == CHOOSE h \in hits : \A g \in hits : h <= g
             IN  LowerSeq(SubSeq(modelId, Len(patterns[k]) + 1, Len(modelId)))
        ELSE LowerSeq(AfterLastSlash(modelId))

\* The alias table of normalizeProviderName (both copies of it are equal).
providerMap(name) ==
    CASE name = "featherless-ai" -> Some("featherless")
      [] name = "fireworks-ai" -> Some("fireworks")
      [] name = "hf-inference" -> Some("huggingface")
      [] OTHER -> None

\* (providerMap[providerName] || providerName).toLowerCase()
normalizeProviderName(providerName) ==
    ToLowerCase(IF Has(providerMap(providerName))
                THEN Val(providerMap(providerName))
                ELSE providerName)

(***************************************************************************)
(* ProviderEntry objects                                                   *)
(***************************************************************************)
\* supports_streaming stands for every supports_* flag other than
\* supports_tools and supports_structured_output (the code treats them alike).
EmptyRec(p) ==
    [provider |-> p, id |-> None, model_id |-> None, status |-> None,
     pricing |-> None, context_length |-> None, supports_tools |-> None,
     supports_structured_output |-> None, supports_streaming |-> None,
     latency_s |-> None, throughput_tps |-> None,
     performance_error |-> None, performance_tested_at |-> None]

Price(i, o) == [input |-> i, output |-> o]

\* Object.assign(target, source): every field present in source overwrites.
ObjectAssign(target, source) ==
    [f \in DOMAIN target |->
        IF f = "provider" THEN target.provider
        ELSE IF Has(source[f]) THEN source[f] ELSE target[f]]

(***************************************************************************)
(* extractHFRouterData (providers/huggingface-router.ts)                   *)
(***************************************************************************)
\* Map.prototype.set on an insertion-ordered map kept as Seq([key, value]).
MapSet(m, k, v) ==
    IF \E i \in 1..Len(m) : m[i].key = k
    THEN [i \in 1..Len(m) |-> IF m[i].key = k THEN [key |-> k, value |-> v] ELSE m[i]]
    ELSE Append(m, [key |-> k, value |-> v])

MapHas(m, k) == \E i \in 1..Len(m) : m[i].key = k
MapGet(m, k) == (CHOOSE e \in Range(m) : e.key = k).value

NeedsConversionAnd(pricing) == RatGE(pricing.input, 100) /\ RatGE(pricing.output, 100)
\* provider.pricing.input >= 100 || provider.pricing.output >= 100
NeedsConversion(pricing) == RatGE(pricing.input, 100) \/ RatGE(pricing.output, 100)

ExtractPricing(pricing) ==
    Price(IF NeedsConversion(pricing) THEN RatDiv(pricing.input, 100) ELSE pricing.input,
          IF NeedsConversion(pricing) THEN RatDiv(pricing.output, 100) ELSE pricing.output)

\* The entry built for one provider sub-entry.
ExtractEntry(provider) ==
    [EmptyRec(provider.provider) EXCEPT
        !.status = IF Has(provider.status)
                   THEN Some(IF Val(provider.status) = "staging" THEN "offline"
                             ELSE Val(provider.status))
                   ELSE None,
        !.pricing = IF Has(provider.pricing)
                    THEN Some(ExtractPricing(Val(provider.pricing)))
                    ELSE None,
        !.context_length = IF Has(provider.context_length) /\ Val(provider.context_length) /= 0
                           THEN provider.context_length ELSE None,
        !.supports_tools = provider.supports_tools,
        !.supports_structured_output = provider.supports_structured_output]

RECURSIVE ExtractLoop(_, _)
ExtractLoop(provs, acc) ==
    IF provs = << >> THEN acc
    ELSE LET provider == Head(provs)
         IN  IF provider.provider = ""
             THEN ExtractLoop(Tail(provs), acc)
             ELSE ExtractLoop(Tail(provs),
                              MapSet(acc, provider.provider, ExtractEntry(provider)))

\* model is an HFModel object, rh the record heap its providers point into.
extractHFRouterData(model, rh) ==
    IF ~Has(model.providers) THEN << >>
    ELSE ExtractLoop([i \in 1..Len(Val(model.providers)) |-> rh[Val(model.providers)[i]]],
                     << >>)


(***************************************************************************)
(* Static pricing fallback (providers/static-pricing.ts)                   *)
(***************************************************************************)
\* The rows of staticPricing for the providers of the model; of the groq and
\* fireworks rows, the ones whose ids occur in the model are kept.
staticPricing(provider) ==
    CASE provider = "groq" ->
            Some(<< [key |-> <<"llama3-8b-8192">>,
                     value |-> Price(Rat(5, 100), Rat(8, 100))],
                    [key |-> <<"gemma-7b-it">>,
                     value |-> Price(Rat(7, 100), Rat(7, 100))] >>)
      [] provider = "featherless" ->
            Some(<< [key |-> <<"default">>,
                     value |-> Price(Rat(10, 100), Rat(10, 100))] >>)
      [] provider = "fireworks" ->
            Some(<< [key |-> <<"deepseek-v3">>,
                     value |-> Price(Rat(30, 100), Rat(30, 100))] >>)
      [] OTHER -> None

\* The lookup without the provider-wide default row.
getStaticPricingExactOnly(provider, modelId) ==
    LET providerPricing == staticPricing(provider)
    IN  IF ~Has(providerPricing) THEN None
        ELSE IF MapHas(Val(providerPricing), modelId)
             THEN Some(MapGet(Val(providerPricing), modelId))
        ELSE None

getStaticPricing(provider, modelId) ==
    LET providerPricing == staticPricing(provider)
    IN  IF ~Has(providerPricing) THEN None
        ELSE IF MapHas(Val(providerPricing), modelId)
             THEN Some(MapGet(Val(providerPricing), modelId))
        ELSE IF MapHas(Val(providerPricing), <<"default">>)
             THEN Some(MapGet(Val(providerPricing), <<"default">>))
        ELSE None

\* A string field read with ||: absent and "" are both falsy.
Truthy(o) == Has(o) /\ Val(o) /= << >>

\* (entry as any).id || (entry as any).model_id || 'unknown'
extractModelId(entry) ==
    IF Truthy(entry.id) THEN Val(entry.id)
    ELSE IF Truthy(entry.model_id) THEN Val(entry.model_id)
    ELSE <<"unknown">>

\* AggregatorConfig.includeStaticPricing: the constructor's default, which
\* main never overrides.
includeStaticPricing == TRUE

\* Static pricing put on every entry the table prices, priced or not.
enrichWithStaticPricingOverwrite(provider, entries) ==
    [i \in 1..Len(entries) |->
        LET staticPrice == getStaticPricing(provider, extractModelId(entries[i]))
        IN  IF Has(staticPrice)
            THEN [entries[i] EXCEPT !.pricing = staticPrice]
            ELSE entries[i]]

enrichWithStaticPricing(provider, entries) ==
    IF ~includeStaticPricing THEN entries
    ELSE [i \in 1..Len(entries) |->
            LET entry == entries[i]
                staticPrice == getStaticPricing(provider, extractModelId(entry))
            IN  IF ~Has(entry.pricing) /\ Has(staticPrice)
                THEN [entry EXCEPT !.pricing = staticPrice]
                ELSE entry]

(***************************************************************************)
(* matchProviderModel                                                      *)
(***************************************************************************)
\* (entry as any).id || (entry as any).model_id || ""
EntryId(entry) ==
    IF Truthy(entry.id) THEN Val(entry.id)
    ELSE IF Truthy(entry.model_id) THEN Val(entry.model_id)
    ELSE << >>

\* The filter with an entry that has no id matching nothing.
EntryMatchesWithId(normalizedHfId, entry) ==
    /\ EntryId(entry) /= << >>
    /\ \/ Includes(normalizeModelId(EntryId(entry)), normalizedHfId)
       \/ Includes(normalizedHfId, normalizeModelId(EntryId(entry)))

EntryMatches(normalizedHfId, entry) ==
    LET normalizedEntryId == normalizeModelId(EntryId(entry))
    IN  \/ Includes(normalizedEntryId, normalizedHfId)
        \/ Includes(normalizedHfId, normalizedEntryId)

\* entries.filter(pred) on a sequence of addresses into rh.
RECURSIVE FilterMatching(_, _, _)
FilterMatching(entries, rh, normalizedHfId) ==
    IF entries = << >> THEN << >>
    ELSE LET rest == FilterMatching(Tail(entries), rh, normalizedHfId)
         IN  IF EntryMatches(normalizedHfId, rh[Head(entries)])
             THEN <<Head(entries)>> \o rest
             ELSE rest

RECURSIVE MatchLoop(_, _, _)
MatchLoop(pd, rh, normalizedHfId) ==
    IF pd = << >> THEN << >>
    ELSE LET matchingEntries == FilterMatching(Head(pd).entries, rh, normalizedHfId)
             rest == MatchLoop(Tail(pd), rh, normalizedHfId)
         IN  IF Len(matchingEntries) > 0
             THEN <<[provider |-> Head(pd).provider, entries |-> matchingEntries]>> \o rest
             ELSE rest

\* providerEntries is the aggregator's map, Seq([provider, entries: Seq(address)]).
matchProviderModel(hfModelId, providerEntries, rh) ==
    MatchLoop(providerEntries, rh, normalizeModelId(hfModelId))


(***************************************************************************)
(* enrichHuggingfaceModels: one iteration of the loop over hfModels        *)
(***************************************************************************)
\* `${hfModel.id}:${providerName}`
MatchKey(id, providerName) == id \o <<":", providerName>>

\* { provider, id: hfModel.id, ...entry }: the spread fields win.
SnapshotOf(provider, hfId, entry) ==
    [entry EXCEPT !.id = IF Has(entry.id) THEN entry.id ELSE Some(hfId)]

\* A copy that shares the provider records with the original: { ...hfModel }.
ShallowClone(mh, rh, a) ==
    [mh |-> Append(mh, mh[a]), rh |-> rh, addr |-> Len(mh) + 1]

\* structuredClone(hfModel): a deep copy; the clone and each of its provider
\* records are fresh objects.
StructuredClone(mh, rh, a) ==
    LET m == mh[a]
        n == IF Has(m.providers) THEN Len(Val(m.providers)) ELSE 0
        copies == [k \in 1..n |-> rh[Val(m.providers)[k]]]
        clone == [id |-> m.id,
                  providers |-> IF Has(m.providers)
                                THEN Some([k \in 1..n |-> Len(rh) + k])
                                ELSE None]
    IN  [mh |-> Append(mh, clone), rh |-> rh \o copies, addr |-> Len(mh) + 1]

\* The lookup without the normalisation of the canonical name.
FindProviderExact(providers, rh, name) ==
    LET hits == {i \in 1..Len(providers) : rh[providers[i]].provider = name}
    IN  IF hits = {} THEN 0
        ELSE providers[CHOOSE i \in hits : \A j \in hits : i <= j]

\* enrichedModel.providers.find(p => normalizeProviderName(p.provider) === name):
\* the address of the first such record, 0 when there is none.
FindProvider(providers, rh, name) ==
    LET hits == {i \in 1..Len(providers) :
                    normalizeProviderName(rh[providers[i]].provider) = name}
    IN  IF hits = {} THEN 0
        ELSE providers[CHOOSE i \in hits : \A j \in hits : i <= j]

AlwaysMissing(existingProvider) == FALSE
\* !!existingProvider.pricing
HadPricing(existingProvider) == Has(existingProvider.pricing)

\* !!existingProvider.context_length
HadContext(existingProvider) ==
    Has(existingProvider.context_length) /\ Val(existingProvider.context_length) /= 0

\* The chain of independent ifs written as an else-if chain: at most one field
\* is taken from a raw entry.
MergedDataElseIf(existingProvider, providerEntry) ==
    LET e == EmptyRec(existingProvider.provider)
    IN  IF ~HadPricing(existingProvider) /\ Has(providerEntry.pricing)
        THEN [e EXCEPT !.pricing = providerEntry.pricing]
        ELSE IF ~HadContext(existingProvider) /\ HadContext(providerEntry)
        THEN [e EXCEPT !.context_length = providerEntry.context_length]
        ELSE IF ~Has(existingProvider.supports_tools) /\ Has(providerEntry.supports_tools)
        THEN [e EXCEPT !.supports_tools = providerEntry.supports_tools]
        ELSE IF /\ ~Has(existingProvider.supports_structured_output)
                /\ Has(providerEntry.supports_structured_output)
        THEN [e EXCEPT !.supports_structured_output = providerEntry.supports_structured_output]
        ELSE IF ~Has(existingProvider.supports_streaming) /\ Has(providerEntry.supports_streaming)
        THEN [e EXCEPT !.supports_streaming = providerEntry.supports_streaming]
        ELSE e

\* The pricing of the raw entry taken whether or not the canonical entry
\* has one.
MergedDataOverwrite(existingProvider, providerEntry) ==
    [EmptyRec(existingProvider.provider) EXCEPT
        !.pricing = providerEntry.pricing,
        !.context_length = IF ~HadContext(existingProvider) /\ HadContext(providerEntry)
                           THEN providerEntry.context_length ELSE None,
        !.supports_tools = IF ~Has(existingProvider.supports_tools)
                           THEN providerEntry.supports_tools ELSE None,
        !.supports_structured_output =
                           IF ~Has(existingProvider.supports_structured_output)
                           THEN providerEntry.supports_structured_output ELSE None,
        !.supports_streaming = IF ~Has(existingProvider.supports_streaming)
                               THEN providerEntry.supports_streaming ELSE None]

\* mergedData: the fields of providerEntry that existingProvider lacks.
MergedData(existingProvider, providerEntry) ==
    [EmptyRec(existingProvider.provider) EXCEPT
        !.pricing = IF ~HadPricing(existingProvider) /\ Has(providerEntry.pricing)
                    THEN providerEntry.pricing ELSE None,
        !.context_length = IF ~HadContext(existingProvider) /\ HadContext(providerEntry)
                           THEN providerEntry.context_length ELSE None,
        !.supports_tools = IF ~Has(existingProvider.supports_tools)
                           THEN providerEntry.supports_tools ELSE None,
        !.supports_structured_output =
                           IF ~Has(existingProvider.supports_structured_output)
                           THEN providerEntry.supports_structured_output ELSE None,
        !.supports_streaming = IF ~Has(existingProvider.supports_streaming)
                               THEN providerEntry.supports_streaming ELSE None]

\* The working state of one loop iteration:
\*   mh, rh        the heaps
\*   model         address of enrichedModel
\*   stats, keys, matched   stats, matchedProviderKeys, matchedProviderData
\*   modelEnriched the flag of the same name
PushUnlisted(S, entryAddr) ==
    [S EXCEPT !.mh[S.model].providers = Some(Append(Val(@), entryAddr))]
\* "No HF router data for this provider: skip".
SkipUnlisted(S, entryAddr) == S

\* The priority pass without its counting: it only tracks the snapshot.
RECURSIVE PriorityPassUncounted(_, _, _)
PriorityPassUncounted(S, hfId, hfRouterData) ==
    IF hfRouterData = << >> THEN S
    ELSE
      LET providerName == Head(hfRouterData).key
          hfProviderData == Head(hfRouterData).value
          existingProvider == FindProvider(Val(S.mh[S.model].providers), S.rh,
                                           normalizeProviderName(providerName))
          matchKey == MatchKey(hfId, providerName)
          fresh == existingProvider /= 0 /\ matchKey \notin S.keys
          S1 == [S EXCEPT
                   !.keys = IF fresh THEN @ \cup {matchKey} ELSE @,
                   !.matched = IF fresh
                               THEN Append(@, SnapshotOf(providerName, hfId, hfProviderData))
                               ELSE @]
      IN  PriorityPassUncounted(S1, hfId, Tail(hfRouterData))

\* Priority pass, lines 150-175: hfRouterData is Seq([key, value]).
RECURSIVE PriorityPass(_, _, _)
PriorityPass(S, hfId, hfRouterData) ==
    IF hfRouterData = << >> THEN S
    ELSE
      LET providerName == Head(hfRouterData).key
          hfProviderData == Head(hfRouterData).value
          normalizedProvider == normalizeProviderName(providerName)
          existingProvider == FindProvider(Val(S.mh[S.model].providers), S.rh,
                                           normalizedProvider)
          counted == existingProvider /= 0 /\ Has(hfProviderData.pricing)
          matchKey == MatchKey(hfId, providerName)
          fresh == existingProvider /= 0 /\ matchKey \notin S.keys
          S1 == [S EXCEPT
                   !.stats.providers_enriched = IF counted THEN @ + 1 ELSE @,
                   !.modelEnriched = IF counted THEN TRUE ELSE @,
                   !.keys = IF fresh THEN @ \cup {matchKey} ELSE @,
                   !.matched = IF fresh
                               THEN Append(@, SnapshotOf(providerName, hfId, hfProviderData))
                               ELSE @]
      IN  PriorityPass(S1, hfId, Tail(hfRouterData))

\* The body of the inner loop of the supplemental pass, lines 181-244, for one
\* raw entry (an address) of aggregator provider `provider`.
MergeEntry(S, hfId, provider, entryAddr) ==
    LET existingProvider == FindProvider(Val(S.mh[S.model].providers), S.rh,
                                         ToLowerCase(provider))
    IN  IF existingProvider = 0 THEN SkipUnlisted(S, entryAddr)
        ELSE
          LET old == S.rh[existingProvider]
              providerEntry == S.rh[entryAddr]
              mergedData == MergedData(old, providerEntry)
              new == ObjectAssign(old, mergedData)
              matchKey == MatchKey(hfId, provider)
              fresh == matchKey \notin S.keys
          IN  [S EXCEPT
                 !.rh[existingProvider] = new,
                 !.stats.providers_enriched = IF Has(mergedData.pricing) THEN @ + 1 ELSE @,
                 !.stats.new_capabilities_added =
                        IF Has(mergedData.supports_streaming) THEN @ + 1 ELSE @,
                 !.modelEnriched = IF Has(mergedData.pricing) THEN TRUE ELSE @,
                 !.keys = IF fresh THEN @ \cup {matchKey} ELSE @,
                 !.matched = IF fresh
                             THEN Append(@, SnapshotOf(provider, hfId, new))
                             ELSE @]

RECURSIVE MergeEntries(_, _, _, _)
MergeEntries(S, hfId, provider, providerEntries) ==
    IF providerEntries = << >> THEN S
    ELSE MergeEntries(MergeEntry(S, hfId, provider, Head(providerEntries)),
                      hfId, provider, Tail(providerEntries))

\* Supplemental pass, lines 178-247: matches is Seq([provider, entries]).
RECURSIVE SupplementalPass(_, _, _)
SupplementalPass(S, hfId, matches) ==
    IF matches = << >> THEN S
    ELSE SupplementalPass(
            MergeEntries(S, hfId, Head(matches).provider, Head(matches).entries),
            hfId, Tail(matches))

\* One iteration of `for (const hfModel of hfModels)`, lines 133-254, for the
\* canonical model at address a; returns the new [mh, rh, stats, keys, matched]
\* and the address pushed onto enrichedModels.
EnrichOne(mh, rh, st, keys, matched, pd, a) ==
    LET c == StructuredClone(mh, rh, a)
        hfId == mh[a].id
        hfRouterData == extractHFRouterData(c.mh[c.addr], c.rh)
        matches == matchProviderModel(hfId, pd, c.rh)
        mh1 == IF Has(c.mh[c.addr].providers) THEN c.mh
               ELSE [c.mh EXCEPT ![c.addr].providers = Some(<< >>)]
        S0 == [mh |-> mh1, rh |-> c.rh, model |-> c.addr, stats |-> st,
               keys |-> keys, matched |-> matched, modelEnriched |-> FALSE]
        S1 == PriorityPass(S0, hfId, hfRouterData)
        S2 == SupplementalPass(S1, hfId, matches)
    IN  [mh |-> S2.mh, rh |-> S2.rh,
         stats |-> IF S2.modelEnriched
                   THEN [S2.stats EXCEPT !.models_enriched = @ + 1]
                   ELSE S2.stats,
         keys |-> S2.keys, matched |-> S2.matched, addr |-> c.addr]

\* The whole loop over a list of canonical model addresses.
RECURSIVE EnrichLoop(_, _, _)
EnrichLoop(R, pd, list) ==
    IF list = << >> THEN R
    ELSE LET r == EnrichOne(R.mh, R.rh, R.stats, R.keys, R.matched, pd, Head(list))
         IN  EnrichLoop([mh |-> r.mh, rh |-> r.rh, stats |-> r.stats, keys |-> r.keys,
                         matched |-> r.matched, out |-> Append(R.out, r.addr)],
                        pd, Tail(list))

\* stats as initialised at lines 113-124.
InitialStats(list, pd) ==
    [total_models |-> Len(list), models_enriched |-> 0, providers_enriched |-> 0,
     new_capabilities_added |-> 0,
     providers_fetched |-> [i \in 1..Len(pd) |->
                              [key |-> pd[i].provider, value |-> Len(pd[i].entries)]]]

\* The merge of `list` against the aggregator map pd, run to its return.
EnrichAll(mh, rh, pd, list) ==
    EnrichLoop([mh |-> mh, rh |-> rh, stats |-> InitialStats(list, pd), keys |-> {},
                matched |-> << >>, out |-> << >>], pd, list)

\* The value of a list of models, every address followed: what
\* JSON.stringify would write.
DeepModel(mh, rh, a) ==
    [id |-> mh[a].id,
     providers |-> IF Has(mh[a].providers)
                   THEN Some([k \in 1..Len(Val(mh[a].providers)) |->
                                rh[Val(mh[a].providers)[k]]])
                   ELSE None]
DeepList(mh, rh, list) == [i \in 1..Len(list) |-> DeepModel(mh, rh, list[i])]

\* The count of lines 257-268.
UnmatchedCount(pd, rh, keys) ==
    LET pairs == {<<i, j>> \in (1..Len(pd)) \X (1..Len(rh)) : j <= Len(pd[i].entries)}
        modelId(e) == IF Truthy(e.model_id) THEN Val(e.model_id)
                      ELSE IF Truthy(e.id) THEN Val(e.id) ELSE << >>
    IN  Cardinality({q \in pairs :
                        LET e == rh[pd[q[1]].entries[q[2]]]
                        IN  /\ modelId(e) /= << >>
                            /\ MatchKey(modelId(e), pd[q[1]].provider) \notin keys})


(***************************************************************************)
(* The inputs of the merge                                                 *)
(***************************************************************************)
\* Bounds of the model.
MaxEntries == 2     \* provider sub-entries of the canonical model
MaxRaw == 2         \* raw entries the fetchers return, all providers together

SeqsUpTo(S, n) == UNION {[1..k -> S] : k \in 0..n}

\* Canonical model ids: "acme/foo" and "meta-llama/Llama-bar".
HfIdFoo == <<"acme", "/", "foo">>
HfIdBar == <<"meta-llama", "/", "Llama-", "bar">>

\* Provider sub-entries as the canonical source delivers them.
CanonBare(name) == [EmptyRec(name) EXCEPT !.status = Some("live")]
CanonPriced(name) ==
    [EmptyRec(name) EXCEPT !.status = Some("staging"),
                           !.pricing = Some(Price(Rat(150, 1), Rat(300, 1))),
                           !.context_length = Some(4096)]
CanonCaps(name) ==
    [EmptyRec(name) EXCEPT !.supports_tools = Some(FALSE),
                           !.supports_streaming = Some(FALSE)]

CanonRecs ==
    {CanonBare("sambanova"), CanonPriced("sambanova"), CanonCaps("sambanova"),
     CanonBare("featherless-ai"), CanonPriced("featherless-ai"),
     CanonBare("Featherless-AI")}
CanonRecsFew ==
    {CanonBare("sambanova"), CanonPriced("sambanova"), CanonBare("featherless-ai")}

\* The canonical lists: one model with up to MaxEntries sub-entries, or two
\* models (distinct ids) with at most one sub-entry each.
CanonLists ==
    {<<[id |-> HfIdFoo, providers |-> ps]>> :
        ps \in {None} \cup {Some(l) : l \in SeqsUpTo(CanonRecs, MaxEntries)}}
    \cup
    {<<[id |-> HfIdFoo, providers |-> p1], [id |-> HfIdBar, providers |-> p2]>> :
        p1 \in {None} \cup {Some(l) : l \in SeqsUpTo(CanonRecsFew, 1)},
        p2 \in {None} \cup {Some(l) : l \in SeqsUpTo(CanonRecsFew, 1)}}

\* Raw entries as the fetchers map them.  SambaNovaFetcher stores the
\* provider's model id and the API's pricing on the entry; FeatherlessFetcher
\* stores neither (its pricing comes from the static table's default row).
RawSambanova ==
    {[EmptyRec("sambanova") EXCEPT
        !.id = Some(<<"foo">>), !.status = Some("live"),
        !.pricing = Some(Price(Rat(5, 100), Rat(8, 100))),
        !.context_length = Some(8192), !.supports_tools = Some(TRUE),
        !.supports_streaming = Some(TRUE)],
     [EmptyRec("sambanova") EXCEPT
        !.id = Some(<<"Foo", "-8b">>), !.status = Some("live"),
        !.pricing = Some(Price(Rat(59, 100), Rat(79, 100))),
        !.supports_tools = Some(TRUE), !.supports_streaming = Some(TRUE)],
     [EmptyRec("sambanova") EXCEPT
        !.id = Some(<<"qux">>), !.status = Some("live"),
        !.pricing = Some(Price(Rat(2, 1), Rat(2, 1))),
        !.context_length = Some(8192), !.supports_tools = Some(TRUE),
        !.supports_streaming = Some(TRUE)]}
RawFeatherless ==
    {[EmptyRec("featherless") EXCEPT
        !.status = Some("live"), !.context_length = Some(4096),
        !.supports_streaming = Some(TRUE)],
     [EmptyRec("featherless") EXCEPT
        !.status = Some("offline"), !.context_length = Some(32768),
        !.supports_streaming = Some(TRUE)],
     [EmptyRec("featherless") EXCEPT
        !.status = Some("offline"), !.supports_streaming = Some(TRUE)]}

\* What the selected fetchers return, in the order of the provider list.
FetchedMaps ==
    {<<[provider |-> "sambanova", entries |-> g],
       [provider |-> "featherless", entries |-> f]>> :
        <<g, f>> \in {x \in SeqsUpTo(RawSambanova, MaxRaw) \X SeqsUpTo(RawFeatherless, MaxRaw) :
                        Len(x[1]) + Len(x[2]) <= MaxRaw}}

\* Lays the canonical models out on the heaps.
RECURSIVE AllocModels(_, _)
AllocModels(ms, H) ==
    IF ms = << >> THEN H
    ELSE LET m == Head(ms)
             n == IF Has(m.providers) THEN Len(Val(m.providers)) ELSE 0
             obj == [id |-> m.id,
                     providers |-> IF Has(m.providers)
                                   THEN Some([k \in 1..n |-> Len(H.rh) + k])
                                   ELSE None]
         IN  AllocModels(Tail(ms),
                [mh |-> Append(H.mh, obj),
                 rh |-> H.rh \o (IF Has(m.providers) THEN Val(m.providers) ELSE << >>),
                 list |-> Append(H.list, Len(H.mh) + 1)])

\* The results map of fetchAllProviders, its entries laid out on the heap.
RECURSIVE AllocRaw(_, _)
AllocRaw(fs, H) ==
    IF fs = << >> THEN H
    ELSE LET entries == enrichWithStaticPricing(Head(fs).provider, Head(fs).entries)
             addrs == [k \in 1..Len(entries) |-> Len(H.rh) + k]
         IN  AllocRaw(Tail(fs),
                [rh |-> H.rh \o entries,
                 pd |-> Append(H.pd, [provider |-> Head(fs).provider, entries |-> addrs])])

ZeroStats ==
    [total_models |-> 0, models_enriched |-> 0, providers_enriched |-> 0,
     new_capabilities_added |-> 0, providers_fetched |-> << >>]


(***************************************************************************)
(* The merge as a state machine                                            *)
(***************************************************************************)
AggIdle ==
    /\ aggProviders = << >> /\ aggConcurrent = 0 /\ aggBatch = 0
    /\ aggSlot = << >> /\ aggOut = << >> /\ aggFetched = << >> /\ aggResults = << >>
    /\ aggPc = "idle" /\ aggLog = << >>
ProbeIdle == clock = 0 /\ probe = << >>
PriceIdle == priceIn = << >> /\ priceOut = << >>
FetchIdle == fetcher = << >> /\ fcall = << >> /\ flog = << >>
MainIdle == main = << >>
MergeIdle ==
    /\ recHeap = << >> /\ modelHeap = << >> /\ recHeap0 = << >> /\ modelHeap0 = << >>
    /\ hfModels = << >> /\ fetched = << >> /\ providerData = << >>
    /\ enrichedModels = << >> /\ stats = ZeroStats /\ matchedProviderData = << >>
    /\ matchedProviderKeys = {} /\ unmatchedCount = 0 /\ mpc = "idle" /\ mi = 0
    /\ rerun = << >> /\ refed = << >> /\ probed = {}

\* main has fetched the canonical list and is about to call the merge.
MergeInit ==
    /\ \E ms \in CanonLists :
          LET H == AllocModels(ms, [mh |-> << >>, rh |-> << >>, list |-> << >>])
          IN  /\ modelHeap = H.mh /\ recHeap = H.rh /\ hfModels = H.list
              /\ modelHeap0 = H.mh /\ recHeap0 = H.rh
    /\ fetched \in FetchedMaps
    /\ providerData = << >> /\ enrichedModels = << >> /\ stats = ZeroStats
    /\ matchedProviderData = << >> /\ matchedProviderKeys = {} /\ unmatchedCount = 0
    /\ mpc = "call" /\ mi = 0 /\ rerun = << >> /\ refed = << >> /\ probed = {}
    /\ AggIdle /\ ProbeIdle /\ PriceIdle /\ FetchIdle /\ MainIdle

\* Lines 110-131: the aggregator's map arrives and stats is initialised.
FetchProviderData ==
    /\ mpc = "call"
    /\ LET H == AllocRaw(fetched, [rh |-> recHeap, pd |-> << >>])
       IN  /\ recHeap' = H.rh /\ recHeap0' = H.rh
           /\ providerData' = H.pd
           /\ stats' = InitialStats(hfModels, H.pd)
    /\ mpc' = "loop" /\ mi' = 1
    /\ UNCHANGED <<modelHeap, modelHeap0, hfModels, fetched, enrichedModels,
                   matchedProviderData, matchedProviderKeys, unmatchedCount,
                   rerun, refed, probed>>
    /\ UNCHANGED <<aggVars, probeVars, priceVars, fetchVars, mainVars>>

\* Lines 133-254: one iteration of the loop.
EnrichModel ==
    /\ mpc = "loop" /\ mi <= Len(hfModels)
    /\ \E r \in {EnrichOne(modelHeap, recHeap, stats, matchedProviderKeys,
                             matchedProviderData, providerData, hfModels[mi])} :
           /\ modelHeap' = r.mh /\ recHeap' = r.rh /\ stats' = r.stats
           /\ matchedProviderKeys' = r.keys /\ matchedProviderData' = r.matched
           /\ enrichedModels' = Append(enrichedModels, r.addr)
    /\ mi' = mi + 1
    /\ UNCHANGED <<recHeap0, modelHeap0, hfModels, fetched, providerData,
                   unmatchedCount, mpc, rerun, refed, probed>>
    /\ UNCHANGED <<aggVars, probeVars, priceVars, fetchVars, mainVars>>

\* Lines 256-274: the unmatched count, then the return.
EnrichReturn ==
    /\ mpc = "loop" /\ mi > Len(hfModels)
    /\ unmatchedCount' = UnmatchedCount(providerData, recHeap, matchedProviderKeys)
    /\ mpc' = "done"
    /\ UNCHANGED <<recHeap, modelHeap, recHeap0, modelHeap0, hfModels, fetched,
                   providerData, enrichedModels, stats, matchedProviderData,
                   matchedProviderKeys, mi, rerun, refed, probed>>
    /\ UNCHANGED <<aggVars, probeVars, priceVars, fetchVars, mainVars>>

\* The merge is run again: on the same canonical list, and on the list it
\* returned, both against the same aggregator map.  The values of the two
\* results are kept.
MergeAgain ==
    /\ mpc = "done"
    /\ \E again \in {EnrichAll(modelHeap, recHeap, providerData, hfModels)} :
       \E fed \in {EnrichAll(again.mh, again.rh, providerData, enrichedModels)} :
          /\ rerun' = Some(DeepList(again.mh, again.rh, again.out))
          /\ refed' = Some(DeepList(fed.mh, fed.rh, fed.out))
          /\ modelHeap' = fed.mh /\ recHeap' = fed.rh
    /\ mpc' = "again"
    /\ UNCHANGED <<recHeap0, modelHeap0, hfModels, fetched, providerData,
                   enrichedModels, stats, matchedProviderData, matchedProviderKeys,
                   unmatchedCount, mi, probed>>
    /\ UNCHANGED <<aggVars, probeVars, priceVars, fetchVars, mainVars>>

\* Results that leave the status of the record as it was.
ProbeResultsWithoutStatus ==
    {[EmptyRec("") EXCEPT !.latency_s = Some(Rat(1, 2)), !.throughput_tps = Some(Rat(40, 1)),
                          !.performance_tested_at = Some("t")],
     [EmptyRec("") EXCEPT !.performance_error = Some("Request timeout"),
                          !.performance_tested_at = Some("t")]}

\* What testModelProvider returns (lines 335-348), with the timestamp that
\* testProvidersBatch adds (lines 359-361).
ProbeResults ==
    {[EmptyRec("") EXCEPT !.latency_s = Some(Rat(1, 2)), !.throughput_tps = Some(Rat(40, 1)),
                          !.status = Some("live"), !.performance_tested_at = Some("t")],
     [EmptyRec("") EXCEPT !.performance_error = Some("Request timeout"),
                          !.status = Some("offline"), !.performance_tested_at = Some("t")]}

\* The records testAllProviders selects from a list of models (no filter, no
\* limit): every provider record of every model.
ProbeTargets(mh, list) ==
    UNION {IF Has(mh[list[i]].providers) THEN Range(Val(mh[list[i]].providers)) ELSE {} :
              i \in 1..Len(list)}

\* The prober writes its results onto the records of the enriched list
\* (testProvidersBatch, line 359).
ProbeWrite ==
    /\ mpc = "again"
    /\ \E res \in ProbeResults :
          recHeap' = [a \in 1..Len(recHeap) |->
                        IF a \in ProbeTargets(modelHeap, enrichedModels)
                        THEN ObjectAssign(recHeap[a], res) ELSE recHeap[a]]
    /\ probed' = ProbeTargets(modelHeap, enrichedModels)
    /\ mpc' = "probed"
    /\ UNCHANGED <<modelHeap, recHeap0, modelHeap0, hfModels, fetched, providerData,
                   enrichedModels, stats, matchedProviderData, matchedProviderKeys,
                   unmatchedCount, mi, rerun, refed>>
    /\ UNCHANGED <<aggVars, probeVars, priceVars, fetchVars, mainVars>>

MergeNext == FetchProviderData \/ EnrichModel \/ EnrichReturn \/ MergeAgain \/ ProbeWrite

SpecMerge == MergeInit /\ [][MergeNext]_vars


(***************************************************************************)
(* Properties of the merge                                                 *)
(***************************************************************************)
\* The provider records of the model at address a, as a sequence of addresses
\* (empty when the model has no providers list).
ProvidersOf(mh, a) == IF Has(mh[a].providers) THEN Val(mh[a].providers) ELSE << >>

\* The canonical models the loop has finished with.
Processed == 1..Len(enrichedModels)

\* The raw entries (addresses) of aggregator provider index p that
\* matchProviderModel matches to canonical model i.
RawMatches(i, p) ==
    FilterMatching(providerData[p].entries, recHeap0,
                   normalizeModelId(modelHeap0[hfModels[i]].id))

\* The aggregator providers that the supplemental pass resolves to sub-entry
\* k of canonical model i.
ResolvesTo(i, k, p) ==
    LET provs == ProvidersOf(modelHeap0, hfModels[i])
    IN  /\ Len(RawMatches(i, p)) > 0
        /\ FindProvider(provs, recHeap0, ToLowerCase(providerData[p].provider)) = provs[k]

\* C1: a canonical provider entry that carries pricing before the merge has
\* the same pricing in the enriched list, whatever the aggregator supplies.
C1_CanonicalPricingKept ==
    \A i \in Processed :
        \A k \in 1..Len(ProvidersOf(modelHeap0, hfModels[i])) :
            LET before == recHeap0[ProvidersOf(modelHeap0, hfModels[i])[k]]
                after == ProvidersOf(modelHeap, enrichedModels[i])
            IN  Has(before.pricing) =>
                    /\ k <= Len(after)
                    /\ recHeap[after[k]].pricing = before.pricing

\* C1 witness: the merge has returned and a priced canonical entry was
\* offered a different pricing by a matched raw entry of its provider.
C1_Witness ==
    /\ mpc = "done"
    /\ \E i \in Processed :
         \E k \in 1..Len(ProvidersOf(modelHeap0, hfModels[i])) :
           \E p \in 1..Len(providerData) :
             LET before == recHeap0[ProvidersOf(modelHeap0, hfModels[i])[k]]
             IN  /\ Has(before.pricing)
                 /\ ResolvesTo(i, k, p)
                 /\ \E e \in Range(RawMatches(i, p)) :
                        /\ Has(recHeap0[e].pricing)
                        /\ recHeap0[e].pricing /= before.pricing

NamesOf(mh, rh, a) ==
    [k \in 1..Len(ProvidersOf(mh, a)) |-> rh[ProvidersOf(mh, a)[k]].provider]

\* C2: the enriched providers list of every model has the provider names of
\* the canonical list, in the same order and number (an absent list is empty).
C2_NoProviderAdded ==
    \A i \in Processed :
        /\ Has(modelHeap[enrichedModels[i]].providers)
        /\ NamesOf(modelHeap, recHeap, enrichedModels[i])
             = NamesOf(modelHeap0, recHeap0, hfModels[i])

\* C2 witness: the merge has returned, a model had no providers list, and the
\* aggregator had matching records for a provider that model does not list.
C2_Witness ==
    /\ mpc = "done"
    /\ \E i \in Processed :
         /\ ~Has(modelHeap0[hfModels[i]].providers)
         /\ \E p \in 1..Len(providerData) : Len(RawMatches(i, p)) > 0

\* C3: every object of the caller's canonical list and every raw entry of the
\* aggregator's map is field for field what it was when it was handed to the
\* merge, also after the prober has written.
C3_InputsNotMutated ==
    /\ \A a \in 1..Len(modelHeap0) : modelHeap[a] = modelHeap0[a]
    /\ \A a \in 1..Len(recHeap0) : recHeap[a] = recHeap0[a]

\* C3 witness: the merge filled a field of some record and the prober has
\* written onto the enriched records.
C3_Witness ==
    /\ mpc = "probed" /\ probed /= {}
    /\ stats.providers_enriched > 0
    /\ \E i \in Processed :
         \E k \in 1..Len(ProvidersOf(modelHeap0, hfModels[i])) :
            /\ ~Has(recHeap0[ProvidersOf(modelHeap0, hfModels[i])[k]].pricing)
            /\ Has(recHeap[ProvidersOf(modelHeap, enrichedModels[i])[k]].pricing)

\* C4: merging the same inputs again, and merging the enriched list against
\* the same aggregator map, both give the enriched list of the first merge.
C4_MergeIdempotent ==
    mpc = "again" =>
        /\ Val(rerun) = DeepList(modelHeap, recHeap, enrichedModels)
        /\ Val(refed) = DeepList(modelHeap, recHeap, enrichedModels)

\* C4 witness: the merges were repeated in a run where the first merge took
\* two different fields for one record from the aggregator.
C4_Witness ==
    /\ mpc = "again"
    /\ \E i \in Processed :
         \E k \in 1..Len(ProvidersOf(modelHeap0, hfModels[i])) :
            LET before == recHeap0[ProvidersOf(modelHeap0, hfModels[i])[k]]
                after == recHeap[ProvidersOf(modelHeap, enrichedModels[i])[k]]
            IN  /\ ~Has(before.pricing) /\ Has(after.pricing)
                /\ ~Has(before.context_length) /\ Has(after.context_length)

\* C5: the diagnostic snapshot list holds at most one entry per canonical
\* model id and provider, provider names compared after normalisation.
C5_SnapshotDeduplicated ==
    \A x, y \in 1..Len(matchedProviderData) :
        (/\ matchedProviderData[x].id = matchedProviderData[y].id
         /\ normalizeProviderName(matchedProviderData[x].provider)
              = normalizeProviderName(matchedProviderData[y].provider))
        => x = y

\* The precondition of C8 for canonical model i: exactly one provider entry,
\* without pricing, and aggregator provider p resolves to it with at least one
\* matching raw entry that carries pricing.
C8_Case(i, p) ==
    LET provs == ProvidersOf(modelHeap0, hfModels[i])
    IN  /\ Len(provs) = 1
        /\ ~Has(recHeap0[provs[1]].pricing)
        /\ ResolvesTo(i, 1, p)
        /\ \E e \in Range(RawMatches(i, p)) : Has(recHeap0[e].pricing)

\* The pricing of the first raw entry among es (addresses) that has one.
FirstPricing(es) ==
    LET priced == {j \in 1..Len(es) : Has(recHeap0[es[j]].pricing)}
    IN  recHeap0[es[CHOOSE j \in priced : \A h \in priced : j <= h]].pricing

\* C8: when the loop processes a model whose only provider entry lacks
\* pricing and whose provider has matching raw entries with pricing, the
\* entry gets the pricing of the (first such) raw entry, and
\* providers_enriched and models_enriched both grow by exactly 1.
C8_SingleEnrichment ==
    [][ \A p \in 1..Len(providerData) :
          (mpc = "loop" /\ mi <= Len(hfModels) /\ C8_Case(mi, p)) =>
            /\ stats'.providers_enriched = stats.providers_enriched + 1
            /\ stats'.models_enriched = stats.models_enriched + 1
            /\ recHeap'[ProvidersOf(modelHeap', enrichedModels'[mi])[1]].pricing
                 = FirstPricing(RawMatches(mi, p)) ]_vars

\* C8 witness: the loop has processed such a model, for which two raw
\* entries with pricing matched.
C8_Witness ==
    /\ mpc = "loop" /\ mi > 1
    /\ \E p \in 1..Len(providerData) :
         /\ C8_Case(mi - 1, p)
         /\ Cardinality({j \in 1..Len(RawMatches(mi - 1, p)) :
                            Has(recHeap0[RawMatches(mi - 1, p)[j]].pricing)}) >= 2


(***************************************************************************)
(* ProviderAggregator.fetchAllProviders                                    *)
(***************************************************************************)
MaxProviders == 4   \* bound: length of the selected provider list

\* The keys of this.fetchers (initializeFetchers).
RegisteredFetchers ==
    {"novita", "sambanova", "groq", "featherless", "together", "cohere",
     "fireworks", "nebius", "hyperbolic", "cerebras", "nscale"}

\* Provider names a provider list is drawn from; "lambda" has no fetcher.
SelectableProviders == {"groq", "featherless", "lambda"}

\* config.concurrent as the constructor leaves it (3 when the caller gives
\* none), and other values a caller can give.
DefaultConcurrent == 3
ConcurrentChoices == {1, 2, DefaultConcurrent}

\* What a fetcher's fetchModels can resolve with.
FetcherReturns(provider) ==
    IF provider = "groq"
    THEN {<< >>,
          <<[EmptyRec("groq") EXCEPT !.id = Some(<<"llama3-8b-8192">>),
                                     !.status = Some("live"),
                                     !.context_length = Some(8192)]>>}
    ELSE {<< >>,
          <<[EmptyRec(provider) EXCEPT !.status = Some("live"),
                                       !.context_length = Some(4096)]>>}

\* Batches one larger than asked for.
CreateBatchesOversized(items, batchSize) ==
    [b \in 1..((Len(items) + batchSize) \div (batchSize + 1)) |->
        Slice(items, (b - 1) * (batchSize + 1), b * (batchSize + 1))]

\* createBatches(items, batchSize), batchSize >= 1: the slices
\* items.slice(i, i + batchSize) for i = 0, batchSize, 2*batchSize, ...
createBatches(items, batchSize) ==
    [b \in 1..((Len(items) + batchSize - 1) \div batchSize) |->
        Slice(items, (b - 1) * batchSize, b * batchSize)]

\* The batches of fetchAllProviders, as positions of the provider list.
\* How a fetchModels invocation settled.
NotFetched == [outcome |-> "none", entries |-> << >>]
Resolved(entries) == [outcome |-> "resolved", entries |-> entries]
Rejected == [outcome |-> "rejected", entries |-> << >>]

AggBatches == createBatches([i \in 1..Len(aggProviders) |-> i], aggConcurrent)

AggInit ==
    /\ aggProviders \in SeqsUpTo(SelectableProviders, MaxProviders)
    /\ aggConcurrent \in ConcurrentChoices
    /\ aggBatch = 1
    /\ aggSlot = [i \in 1..Len(aggProviders) |-> "idle"]
    /\ aggOut = [i \in 1..Len(aggProviders) |-> << >>]
    /\ aggFetched = [i \in 1..Len(aggProviders) |-> NotFetched]
    /\ aggResults = << >>
    /\ aggPc = "start" /\ aggLog = << >>
    /\ MergeIdle /\ ProbeIdle /\ PriceIdle /\ FetchIdle /\ MainIdle

\* Lines 990-1010: batch.map(...) runs every callback of the batch up to its
\* first await.  A provider without fetcher returns at once (lines 993-996).
StartBatch ==
    /\ aggPc = "start" /\ aggBatch <= Len(AggBatches)
    /\ LET batch == AggBatches[aggBatch]
           started == {batch[j] : j \in {h \in 1..Len(batch) :
                                          aggProviders[batch[h]] \in RegisteredFetchers}}
       IN  /\ aggSlot' = [i \in 1..Len(aggSlot) |->
                            IF i \in started THEN "inflight"
                            ELSE IF i \in Range(batch) THEN "settled"
                            ELSE aggSlot[i]]
           /\ aggLog' = aggLog \o SelectSeq(batch, LAMBDA i : i \in started)
    /\ aggPc' = "await"
    /\ UNCHANGED <<aggProviders, aggConcurrent, aggBatch, aggOut, aggFetched, aggResults>>
    /\ UNCHANGED <<mergeVars, probeVars, priceVars, fetchVars, mainVars>>

\* Lines 1000-1005: fetchModels resolves, the static pricing is applied.
FetchResolve(i) ==
    /\ aggPc = "await" /\ aggSlot[i] = "inflight"
    /\ \E entries \in FetcherReturns(aggProviders[i]) :
          /\ aggOut' = [aggOut EXCEPT ![i] = enrichWithStaticPricing(aggProviders[i], entries)]
          /\ aggFetched' = [aggFetched EXCEPT ![i] = Resolved(entries)]
    /\ aggSlot' = [aggSlot EXCEPT ![i] = "settled"]
    /\ UNCHANGED <<aggProviders, aggConcurrent, aggBatch, aggResults, aggPc, aggLog>>
    /\ UNCHANGED <<mergeVars, probeVars, priceVars, fetchVars, mainVars>>

\* Lines 1006-1009: fetchModels rejects, the callback returns no entries.
FetchReject(i) ==
    /\ aggPc = "await" /\ aggSlot[i] = "inflight"
    /\ aggOut' = [aggOut EXCEPT ![i] = << >>]
    /\ aggFetched' = [aggFetched EXCEPT ![i] = Rejected]
    /\ aggSlot' = [aggSlot EXCEPT ![i] = "settled"]
    /\ UNCHANGED <<aggProviders, aggConcurrent, aggBatch, aggResults, aggPc, aggLog>>
    /\ UNCHANGED <<mergeVars, probeVars, priceVars, fetchVars, mainVars>>

\* results.set only for the callbacks that returned entries.
RECURSIVE SetAllNonEmpty(_, _)
SetAllNonEmpty(results, batch) ==
    IF batch = << >> THEN results
    ELSE SetAllNonEmpty(IF aggOut[Head(batch)] = << >> THEN results
                        ELSE MapSet(results, aggProviders[Head(batch)], aggOut[Head(batch)]),
                        Tail(batch))

RECURSIVE SetAll(_, _)
SetAll(results, batch) ==
    IF batch = << >> THEN results
    ELSE SetAll(MapSet(results, aggProviders[Head(batch)], aggOut[Head(batch)]),
                Tail(batch))

\* Lines 1012-1015: Promise.all resolves once every callback of the batch has
\* returned; the results are stored in batch order.
BatchSettled ==
    /\ aggPc = "await"
    /\ \A i \in Range(AggBatches[aggBatch]) : aggSlot[i] = "settled"
    /\ aggResults' = SetAll(aggResults, AggBatches[aggBatch])
    /\ aggBatch' = aggBatch + 1
    /\ aggPc' = "start"
    /\ UNCHANGED <<aggProviders, aggConcurrent, aggSlot, aggOut, aggFetched, aggLog>>
    /\ UNCHANGED <<mergeVars, probeVars, priceVars, fetchVars, mainVars>>

\* Line 1018.
AggReturn ==
    /\ aggPc = "start" /\ aggBatch > Len(AggBatches)
    /\ aggPc' = "done"
    /\ UNCHANGED <<aggProviders, aggConcurrent, aggBatch, aggSlot, aggOut, aggFetched,
                   aggResults, aggLog>>
    /\ UNCHANGED <<mergeVars, probeVars, priceVars, fetchVars, mainVars>>

AggNext ==
    \/ StartBatch
    \/ \E i \in 1..Len(aggProviders) : FetchResolve(i)
    \/ \E i \in 1..Len(aggProviders) : FetchReject(i)
    \/ BatchSettled
    \/ AggReturn

SpecAgg == AggInit /\ [][AggNext]_vars

InFlight == {i \in 1..Len(aggSlot) : aggSlot[i] = "inflight"}

\* The batch a position of the provider list belongs to, for concurrency c.
BatchOf(i, c) == ((i - 1) \div c) + 1

\* C6: at most C fetchModels invocations are in flight; invocations start in
\* the order of the provider list; while an invocation of a batch is in flight
\* every invocation of the earlier batches has settled and none of a later
\* batch has started.
C6_BoundedFanOut ==
    /\ Cardinality(InFlight) <= aggConcurrent
    /\ \A x, y \in 1..Len(aggLog) : x < y => aggLog[x] < aggLog[y]
    /\ \A i \in InFlight :
         \A j \in 1..Len(aggSlot) :
            /\ BatchOf(j, aggConcurrent) < BatchOf(i, aggConcurrent) => aggSlot[j] = "settled"
            /\ BatchOf(j, aggConcurrent) > BatchOf(i, aggConcurrent) => aggSlot[j] = "idle"

\* C6 witness: the second batch is running with exactly C >= 2 invocations in
\* flight, after the invocations of the first batch have settled.
C6_Witness ==
    /\ aggBatch = 2 /\ aggConcurrent >= 2
    /\ Cardinality(InFlight) = aggConcurrent
    /\ \E i \in 1..Len(aggSlot) :
         /\ BatchOf(i, aggConcurrent) = 1
         /\ aggProviders[i] \in RegisteredFetchers
         /\ aggSlot[i] = "settled"


\* The last position of the provider list that names provider p.
LastPosition(p) ==
    CHOOSE i \in 1..Len(aggProviders) :
        /\ aggProviders[i] = p
        /\ \A j \in (i + 1)..Len(aggProviders) : aggProviders[j] /= p

\* C11: fetchAllProviders runs to its return whatever the fetchers do, and
\* the map it returns has exactly one key per selected provider: the empty
\* list for a provider without fetcher or whose fetchModels rejected, and for
\* every other provider the entries its own fetcher resolved with (static
\* pricing filled in), whatever happened to the others.
C11_FailureIsolated ==
    /\ aggPc \in {"start", "await"} => ENABLED AggNext
    /\ aggPc = "done" =>
         /\ {aggResults[k].key : k \in 1..Len(aggResults)} = Range(aggProviders)
         /\ \A k, l \in 1..Len(aggResults) :
               aggResults[k].key = aggResults[l].key => k = l
         /\ \A k \in 1..Len(aggResults) :
               LET p == aggResults[k].key
                   f == aggFetched[LastPosition(p)]
               IN  /\ p \notin RegisteredFetchers => aggResults[k].value = << >>
                   /\ f.outcome = "rejected" => aggResults[k].value = << >>
                   /\ f.outcome = "resolved" =>
                         aggResults[k].value = enrichWithStaticPricing(p, f.entries)

\* C11 witness: the call returned after a batch in which one fetcher
\* rejected and another resolved with an entry, with a provider that has no
\* fetcher and a later batch whose fetcher resolved with an entry.
C11_Witness ==
    /\ aggPc = "done"
    /\ \E i, j, k, l \in 1..Len(aggProviders) :
          /\ BatchOf(i, aggConcurrent) = BatchOf(j, aggConcurrent)
          /\ aggFetched[i].outcome = "rejected"
          /\ aggFetched[j].outcome = "resolved" /\ aggFetched[j].entries /= << >>
          /\ aggProviders[i] /= aggProviders[j]
          /\ aggProviders[k] \notin RegisteredFetchers
          /\ BatchOf(l, aggConcurrent) > BatchOf(i, aggConcurrent)
          /\ aggFetched[l].outcome = "resolved" /\ aggFetched[l].entries /= << >>
          /\ MapGet(aggResults, aggProviders[j]) /= << >>


(***************************************************************************)
(* testModelProvider and testProvidersBatch                                *)
(***************************************************************************)
MaxProbes == 2      \* bound: triplets in the batch
MaxClock == 60000   \* bound: the clock stops advancing here (ms)

\* The delay of setTimeout(() => controller.abort(), 30_000).
ProbeTimeoutMs == 30000

\* The amounts of time that pass in one step (ms).
ClockSteps == {10000, 15000}

\* A probe that has not been called yet.
NewProbe ==
    [pc |-> "idle", start |-> 0, timer |-> None, rejected |-> None,
     latency |-> None, result |-> None,
     prov |-> [EmptyRec("sambanova") EXCEPT !.status = Some("staging")],
     written |-> FALSE]

\* The values testModelProvider resolves with.
ProbeLive(latency) == [status |-> "live", latency_ms |-> Some(latency), performance_error |-> None]
ProbeOffline(msg) == [status |-> "offline", latency_ms |-> None, performance_error |-> Some(msg)]

\* err.name === "AbortError" ? "Request timeout" : err.message
CatchMessage(errName, errMessage) ==
    IF errName = "AbortError" THEN "Request timeout" ELSE errMessage

\* The fields of a value testModelProvider resolves with (lines 335-339,
\* 345, 348); the throughput is that of 20 tokens.
ResultEntry(res) ==
    IF res.status = "live"
    THEN [EmptyRec("") EXCEPT
            !.latency_s = Some(Rat(Val(res.latency_ms), 1000)),
            !.throughput_tps = Some(IF Val(res.latency_ms) = 0 THEN Rat(0, 1)
                                    ELSE Rat(20 * 1000, Val(res.latency_ms))),
            !.status = Some("live")]
    ELSE [EmptyRec("") EXCEPT !.performance_error = res.performance_error,
                              !.status = Some("offline")]

\* Lines 358-361: the callback of testProvidersBatch goes on as soon as
\* testModelProvider has resolved, before any other event is handled, and
\* assigns the result and the timestamp to the record.
ProbeCallback(p) ==
    IF p.pc = "done" /\ Has(p.result) /\ ~p.written
    THEN [p EXCEPT !.written = TRUE,
                   !.prov = ObjectAssign(ObjectAssign(@, ResultEntry(Val(p.result))),
                                         [EmptyRec("") EXCEPT
                                            !.performance_tested_at = Some("t")])]
    ELSE p

WithCallbacks(ps) == [k \in 1..Len(ps) |-> ProbeCallback(ps[k])]

ProbeInit ==
    /\ clock = 0
    /\ \E n \in 1..MaxProbes : probe = [i \in 1..n |-> NewProbe]
    /\ MergeIdle /\ AggIdle /\ PriceIdle /\ FetchIdle /\ MainIdle

\* testProvidersBatch, line 357: triplets.map runs every callback up to its
\* first await, which is the fetch of testModelProvider (lines 312-322): the
\* start time is taken, the abort timer is armed and the request is sent.
ProbeBatchStart ==
    /\ \A i \in 1..Len(probe) : probe[i].pc = "idle"
    /\ probe' = [i \in 1..Len(probe) |->
                    [probe[i] EXCEPT !.pc = "fetch", !.start = clock,
                                     !.timer = Some(clock + ProbeTimeoutMs)]]
    /\ UNCHANGED clock
    /\ UNCHANGED <<mergeVars, aggVars, priceVars, fetchVars, mainVars>>

\* Time passes.  An armed timer runs its callback when its delay has elapsed,
\* so the clock does not pass the deadline of an armed timer.
Tick ==
    /\ \E d \in ClockSteps :
          /\ clock + d <= MaxClock
          /\ \A i \in 1..Len(probe) :
                Has(probe[i].timer) => clock + d <= Val(probe[i].timer)
          /\ clock' = clock + d
    /\ UNCHANGED probe
    /\ UNCHANGED <<mergeVars, aggVars, priceVars, fetchVars, mainVars>>

\* Lines 317-325: the response headers arrive, fetch resolves; the timer is
\* cleared and the latency taken.  resp.ok decides which body read follows.
HeadersArrive(i) ==
    /\ probe[i].pc = "fetch"
    /\ \E ok \in BOOLEAN :
          probe' = [probe EXCEPT ![i].pc = IF ok THEN "body" ELSE "errbody",
                                 ![i].timer = None,
                                 ![i].latency = Some(clock - probe[i].start)]
    /\ UNCHANGED clock
    /\ UNCHANGED <<mergeVars, aggVars, priceVars, fetchVars, mainVars>>

\* Lines 346-348: fetch rejects for a reason other than the abort (DNS,
\* connection refused, ...).  The timer stays armed.
TransportError(i) ==
    /\ probe[i].pc = "fetch"
    /\ probe' = WithCallbacks([probe EXCEPT ![i].pc = "done",
                              ![i].rejected = Some("TypeError"),
                              ![i].result = Some(ProbeOffline(CatchMessage("TypeError", "fetch failed")))])
    /\ UNCHANGED clock
    /\ UNCHANGED <<mergeVars, aggVars, priceVars, fetchVars, mainVars>>

\* Line 315: the timer's callback runs controller.abort().  A fetch still
\* pending rejects with an AbortError, handled at lines 346-348; on a probe
\* that has already returned the abort has no effect.
TimerFire(i) ==
    /\ Has(probe[i].timer) /\ clock >= Val(probe[i].timer)
    /\ probe' = WithCallbacks([probe EXCEPT
                    ![i].timer = None,
                    ![i].pc = IF probe[i].pc = "fetch" THEN "done" ELSE @,
                    ![i].rejected = IF probe[i].pc = "fetch" THEN Some("AbortError") ELSE @,
                    ![i].result = IF probe[i].pc = "fetch"
                                  THEN Some(ProbeOffline(CatchMessage("AbortError", "This operation was aborted")))
                                  ELSE @])
    /\ UNCHANGED clock
    /\ UNCHANGED <<mergeVars, aggVars, priceVars, fetchVars, mainVars>>

\* Lines 328-339: the body of an ok response has arrived and parsed.
BodyArrives(i) ==
    /\ probe[i].pc = "body"
    /\ probe' = WithCallbacks([probe EXCEPT ![i].pc = "done",
                              ![i].result = Some(ProbeLive(Val(probe[i].latency)))])
    /\ UNCHANGED clock
    /\ UNCHANGED <<mergeVars, aggVars, priceVars, fetchVars, mainVars>>

\* The rejection of line 328 escaping testModelProvider: the probe ends
\* without a value.
BodyFailsUncaught(i) ==
    /\ probe[i].pc = "body"
    /\ probe' = [probe EXCEPT ![i].pc = "done", ![i].rejected = Some("SyntaxError")]
    /\ UNCHANGED clock
    /\ UNCHANGED <<mergeVars, aggVars, priceVars, fetchVars, mainVars>>

\* Line 328 rejecting (the body is not JSON, or the connection breaks while
\* it is read): handled at lines 346-348 with the error's own message.
BodyFails(i) ==
    /\ probe[i].pc = "body"
    /\ probe' = WithCallbacks([probe EXCEPT ![i].pc = "done",
                              ![i].result = Some(ProbeOffline(CatchMessage("SyntaxError", "Unexpected token")))])
    /\ UNCHANGED clock
    /\ UNCHANGED <<mergeVars, aggVars, priceVars, fetchVars, mainVars>>

\* Lines 342-345: the body of a non-ok response has settled (a failed parse
\* becomes {}), the message is the body's error message or the HTTP status.
ErrBodySettles(i) ==
    /\ probe[i].pc = "errbody"
    /\ \E msg \in {"error.message", "HTTP status"} :
          probe' = WithCallbacks([probe EXCEPT ![i].pc = "done", ![i].result = Some(ProbeOffline(msg))])
    /\ UNCHANGED clock
    /\ UNCHANGED <<mergeVars, aggVars, priceVars, fetchVars, mainVars>>

ProbeNext ==
    \/ ProbeBatchStart
    \/ Tick
    \/ \E i \in 1..Len(probe) : HeadersArrive(i)
    \/ \E i \in 1..Len(probe) : TransportError(i)
    \/ \E i \in 1..Len(probe) : TimerFire(i)
    \/ \E i \in 1..Len(probe) : BodyArrives(i)
    \/ \E i \in 1..Len(probe) : BodyFails(i)
    \/ \E i \in 1..Len(probe) : ErrBodySettles(i)

SpecProbe == ProbeInit /\ [][ProbeNext]_vars

\* A probe that has been called and has not returned.
ProbePending(i) == probe[i].pc \in {"fetch", "body", "errbody"}

\* C7: no probe is pending more than 30 s after it started, whatever the
\* endpoint does; and a probe whose request was aborted by the timer has
\* resolved, 30 s after its start, offline with "Request timeout".
C7_ProbeTimeoutEnforced ==
    \A i \in 1..Len(probe) :
        /\ ProbePending(i) => clock - probe[i].start <= ProbeTimeoutMs
        /\ probe[i].rejected = Some("AbortError") =>
              /\ probe[i].pc = "done"
              /\ probe[i].result = Some(ProbeOffline("Request timeout"))

\* The first half of C7 alone: a request the timer aborted has resolved
\* offline with "Request timeout", and a probe still waiting for the response
\* headers is no older than 30 s.
ProbeAbortResolves ==
    \A i \in 1..Len(probe) :
        /\ probe[i].pc = "fetch" => clock - probe[i].start <= ProbeTimeoutMs
        /\ probe[i].rejected = Some("AbortError") =>
              /\ probe[i].pc = "done"
              /\ probe[i].result = Some(ProbeOffline("Request timeout"))

\* A probe was aborted by its timer 30 s after it started.
ProbeAborted ==
    \E i \in 1..Len(probe) :
        /\ probe[i].rejected = Some("AbortError")
        /\ clock - probe[i].start = ProbeTimeoutMs


(***************************************************************************)
(* BaseProviderFetcher.normalizePricing                                    *)
(***************************************************************************)
\* A JavaScript number is an exact rational or NaN (rounding of binary
\* floating point is not modelled).
NaN == [n |-> 0, d |-> 0]
NumMul(x, k) == IF x = NaN THEN NaN ELSE RatMul(x, k)
NumDiv(x, k) == IF x = NaN THEN NaN ELSE RatDiv(x, k)

\* A string is the sequence of its characters.
DigitChars == {"0", "1", "2", "3", "4", "5", "6", "7", "8", "9"}
DigitVal(c) ==
    CASE c = "0" -> 0 [] c = "1" -> 1 [] c = "2" -> 2 [] c = "3" -> 3
      [] c = "4" -> 4 [] c = "5" -> 5 [] c = "6" -> 6 [] c = "7" -> 7
      [] c = "8" -> 8 [] c = "9" -> 9

RECURSIVE Pow10(_)
Pow10(n) == IF n = 0 THEN 1 ELSE 10 * Pow10(n - 1)

\* The number of leading characters of s that are in chars.
RECURSIVE RunLength(_, _)
RunLength(s, chars) ==
    IF s = << >> \/ Head(s) \notin chars THEN 0 ELSE 1 + RunLength(Tail(s), chars)

\* The value of a run of decimal digits (0 for the empty run).
RECURSIVE DigitsValue(_)
DigitsValue(ds) ==
    IF ds = << >> THEN 0
    ELSE 10 * DigitsValue(SubSeq(ds, 1, Len(ds) - 1)) + DigitVal(ds[Len(ds)])

\* parseFloat on unsigned decimal literals without exponent: leading white
\* space is skipped, the longest prefix digits [. digits] or . digits is
\* read, what follows is ignored; NaN when there is no such prefix.
ParseFloat(str) ==
    LET s == SubSeq(str, RunLength(str, {" "}) + 1, Len(str))
        ni == RunLength(s, DigitChars)
        rest == SubSeq(s, ni + 1, Len(s))
        nf == IF rest /= << >> /\ Head(rest) = "."
              THEN RunLength(Tail(rest), DigitChars) ELSE 0
        int == DigitsValue(SubSeq(s, 1, ni))
        frac == DigitsValue(SubSeq(s, ni + 2, ni + 1 + nf))
    IN  IF ni = 0 /\ nf = 0 THEN NaN
        ELSE Rat(int * Pow10(nf) + frac, Pow10(nf))

\* An argument of normalizePricing: a number or a string.
NumberArg(x) == [type |-> "number", num |-> x, str |-> << >>]
StringArg(s) == [type |-> "string", num |-> NaN, str |-> s]

\* typeof v === "string" ? parseFloat(v) : v
ToPrice(v) == IF v.type = "string" THEN ParseFloat(v.str) ELSE v.num

\* per_token prices multiplied by a thousand.
normalizePricingPerThousand(input, output, unit) ==
    LET u == IF Has(unit) THEN Val(unit) ELSE "per_million"
    IN  CASE u = "per_token" ->
               Price(NumMul(ToPrice(input), 1000), NumMul(ToPrice(output), 1000))
          [] u = "cents_per_million" ->
               Price(NumDiv(ToPrice(input), 100), NumDiv(ToPrice(output), 100))
          [] OTHER -> Price(ToPrice(input), ToPrice(output))

\* normalizePricing(input, output, unit); unit is << >> when the caller
\* leaves it out.
normalizePricing(input, output, unit) ==
    LET inputPrice == ToPrice(input)
        outputPrice == ToPrice(output)
        u == IF Has(unit) THEN Val(unit) ELSE "per_million"
    IN  CASE u = "per_token" ->
               Price(NumMul(inputPrice, 1000000), NumMul(outputPrice, 1000000))
          [] u = "cents_per_million" ->
               Price(NumDiv(inputPrice, 100), NumDiv(outputPrice, 100))
          [] OTHER -> Price(inputPrice, outputPrice)


(***************************************************************************)
(* The two pricing conversions, applied to drawn inputs                    *)
(***************************************************************************)
MaxSub == 2   \* bound: provider sub-entries of the canonical model

\* Pricing objects of canonical sub-entries.
CanonPricings ==
    {Price(Rat(1, 2), Rat(3, 2)), Price(Rat(9999, 100), Rat(50, 1)),
     Price(Rat(100, 1), Rat(1, 2)), Price(Rat(1, 2), Rat(100, 1)),
     Price(Rat(150, 1), Rat(300, 1))}

\* Canonical sub-entries: with and without a provider name, with and without
\* pricing.
CanonSubs ==
    {[EmptyRec(name) EXCEPT !.pricing = pr, !.status = Some("live")] :
        name \in {"", "novita", "groq", "fireworks-ai"},
        pr \in {None} \cup {Some(x) : x \in CanonPricings}}

\* Numeric strings an API returns, and what they denote.
NumericStrings ==
    {<<"0", ".", "0", "0", "0", "0", "0", "2">>, <<"1", "5", "0">>,
     <<"1", ".", "5">>, <<" ", "2", "0">>, <<".", "5">>}
NumericValue(str) ==
    CASE str = <<"0", ".", "0", "0", "0", "0", "0", "2">> -> Rat(2, 1000000)
      [] str = <<"1", "5", "0">> -> Rat(150, 1)
      [] str = <<"1", ".", "5">> -> Rat(3, 2)
      [] str = <<" ", "2", "0">> -> Rat(20, 1)
      [] str = <<".", "5">> -> Rat(1, 2)

\* The arguments normalizePricing is called with.
PriceArgs ==
    {NumberArg(x) : x \in {Rat(2, 1000000), Rat(150, 1), Rat(0, 1)}}
        \cup {StringArg(t) : t \in NumericStrings}
        \cup {StringArg(<<"n", "/", "a">>)}
PriceUnits == {None, Some("per_token"), Some("per_million"), Some("cents_per_million")}

\* Providers enrichWithStaticPricing is called for: one with exact rows, one
\* with only the default row, one without a table.
StaticProviders == {"groq", "featherless", "lambda"}

\* Entries a fetcher returned: with and without pricing of their own, named
\* by id or by model_id, with an id the groq table has or has not, or unnamed.
StaticEntries ==
    {[EmptyRec("") EXCEPT !.id = Some(<<"llama3-8b-8192">>), !.status = Some("live")],
     [EmptyRec("") EXCEPT !.id = Some(<<"llama3-8b-8192">>),
                          !.pricing = Some(Price(Rat(1, 1), Rat(2, 1)))],
     [EmptyRec("") EXCEPT !.id = Some(<<"qux">>), !.context_length = Some(4096)],
     [EmptyRec("") EXCEPT !.model_id = Some(<<"gemma-7b-it">>)],
     EmptyRec("")}

PriceInit ==
    /\ priceIn \in
          {[op |-> "extract", subs |-> ss, input |-> NumberArg(NaN),
            output |-> NumberArg(NaN), unit |-> None] : ss \in SeqsUpTo(CanonSubs, MaxSub)}
          \cup
          {[op |-> "normalize", subs |-> << >>, input |-> i, output |-> o, unit |-> u] :
              i \in PriceArgs, o \in PriceArgs, u \in PriceUnits}
          \cup
          {[op |-> "static", provider |-> p, entries |-> es] :
              p \in StaticProviders, es \in SeqsUpTo(StaticEntries, MaxSub)}
    /\ priceOut = None
    /\ MergeIdle /\ AggIdle /\ ProbeIdle /\ FetchIdle /\ MainIdle

\* extractHFRouterData(model) for a model whose providers are priceIn.subs.
ExtractCall ==
    /\ priceIn.op = "extract" /\ ~Has(priceOut)
    /\ priceOut' = Some(extractHFRouterData(
                           [id |-> HfIdFoo,
                            providers |-> Some([k \in 1..Len(priceIn.subs) |-> k])],
                           priceIn.subs))
    /\ UNCHANGED priceIn
    /\ UNCHANGED <<mergeVars, aggVars, probeVars, fetchVars, mainVars>>

\* A fetcher calls this.normalizePricing(input, output, unit).
NormalizeCall ==
    /\ priceIn.op = "normalize" /\ ~Has(priceOut)
    /\ priceOut' = Some(normalizePricing(priceIn.input, priceIn.output, priceIn.unit))
    /\ UNCHANGED priceIn
    /\ UNCHANGED <<mergeVars, aggVars, probeVars, fetchVars, mainVars>>

\* fetchProvider calls this.enrichWithStaticPricing(provider, entries).
StaticCall ==
    /\ priceIn.op = "static" /\ ~Has(priceOut)
    /\ priceOut' = Some(enrichWithStaticPricing(priceIn.provider, priceIn.entries))
    /\ UNCHANGED priceIn
    /\ UNCHANGED <<mergeVars, aggVars, probeVars, fetchVars, mainVars>>

PriceNext == ExtractCall \/ NormalizeCall \/ StaticCall

SpecPrice == PriceInit /\ [][PriceNext]_vars

\* The sub-entries whose extracted entry the returned map holds: those with
\* a provider name that no later sub-entry repeats.
Extracted ==
    {k \in 1..Len(priceIn.subs) :
        /\ priceIn.subs[k].provider /= ""
        /\ \A j \in (k + 1)..Len(priceIn.subs) :
              priceIn.subs[j].provider /= priceIn.subs[k].provider}

\* C9: for every canonical sub-entry with pricing, the extracted entry has
\* both prices divided by 100 when the input or the output price is >= 100,
\* and both unchanged otherwise; {150, 300} becomes {1.50, 3.00}.
C9_PricingUnitDetected ==
    (priceIn.op = "extract" /\ Has(priceOut)) =>
        \A k \in Extracted :
            LET sub == priceIn.subs[k]
                out == MapGet(Val(priceOut), sub.provider)
            IN  Has(sub.pricing) =>
                  LET p == Val(sub.pricing)
                  IN  /\ (p.input.n >= 100 * p.input.d \/ p.output.n >= 100 * p.output.d)
                            => out.pricing = Some(Price(Rat(p.input.n, p.input.d * 100),
                                                        Rat(p.output.n, p.output.d * 100)))
                      /\ (p.input.n < 100 * p.input.d /\ p.output.n < 100 * p.output.d)
                            => out.pricing = Some(p)
                      /\ p = Price(Rat(150, 1), Rat(300, 1))
                            => out.pricing = Some(Price(Rat(3, 2), Rat(3, 1)))

\* C9 witness: the extraction ran on a list with a sub-entry priced
\* {150, 300} and one of which only the input price reaches 100.
C9_Witness ==
    /\ priceIn.op = "extract" /\ Has(priceOut)
    /\ \E k, j \in Extracted :
          /\ priceIn.subs[k].pricing = Some(Price(Rat(150, 1), Rat(300, 1)))
          /\ priceIn.subs[j].pricing = Some(Price(Rat(100, 1), Rat(1, 2)))
          /\ MapGet(Val(priceOut), priceIn.subs[j].provider).pricing
                = Some(Price(Rat(1, 1), Rat(1, 200)))

\* The number an argument denotes: itself, or the value of the numeric string.
Denotes(v) == IF v.type = "string" THEN NumericValue(v.str) ELSE v.num

IsNumeric(v) == v.type = "number" \/ v.str \in NumericStrings

\* C10: normalizePricing returns dollars per million tokens: per_token prices
\* times 1,000,000, cents_per_million prices divided by 100, per_million
\* prices (also when the unit is left out) unchanged, numeric strings parsed
\* first; 0.000002 per token is 2, 150 cents per million is 1.50.
C10_NormalizePricingUnits ==
    (priceIn.op = "normalize" /\ Has(priceOut)
        /\ IsNumeric(priceIn.input) /\ IsNumeric(priceIn.output)) =>
        LET i == Denotes(priceIn.input)
            o == Denotes(priceIn.output)
            r == Val(priceOut)
        IN  /\ priceIn.unit = Some("per_token")
                 => r = Price(Rat(i.n * 1000000, i.d), Rat(o.n * 1000000, o.d))
            /\ priceIn.unit = Some("cents_per_million")
                 => r = Price(Rat(i.n, i.d * 100), Rat(o.n, o.d * 100))
            /\ priceIn.unit \in {None, Some("per_million")} => r = Price(i, o)
            /\ (priceIn.unit = Some("per_token") /\ i = Rat(2, 1000000))
                 => r.input = Rat(2, 1)
            /\ (priceIn.unit = Some("cents_per_million") /\ i = Rat(150, 1))
                 => r.input = Rat(3, 2)

\* C10 witness: a per-token price given as the string "0.000002" with an
\* output price given as a number came back as 2 dollars per million.
C10_Witness ==
    /\ priceIn.op = "normalize" /\ Has(priceOut)
    /\ priceIn.unit = Some("per_token")
    /\ priceIn.input = StringArg(<<"0", ".", "0", "0", "0", "0", "0", "2">>)
    /\ priceIn.output = NumberArg(Rat(150, 1))
    /\ Val(priceOut) = Price(Rat(2, 1), Rat(150000000, 1))


(***************************************************************************)
(* BaseProviderFetcher: enforceRateLimit and fetchWithRetry                *)
(***************************************************************************)
MaxCalls == 2   \* bound: fetchWithRetry calls made on the instance, one after the other

DefaultRetryAttempts == 3        \* rateLimitConfig.retryAttempts || 3
DefaultInitialBackoffMs == 1000  \* rateLimitConfig.initialBackoffMs || 1000
WindowDurationMs == 60000        \* windowDuration
MinIntervalMs == 100             \* minInterval
EpochMs == 1000000               \* Date.now() when the fetcher is constructed

\* Values of the configuration: requestsPerMinute and retryAttempts.
RpmChoices == {1, 2}
RetryChoices == {1, 2, DefaultRetryAttempts}

\* Time the caller lets pass before a call, and the time a response takes (ms).
IdleGaps == {0, MinIntervalMs, WindowDurationMs - MinIntervalMs}
Latencies == {20}

\* What an attempt's fetch can settle with: a response, or a rejection.
Responses ==
    {[kind |-> "response", status |-> 200, retryAfter |-> None, parses |-> TRUE, body |-> "models"],
     [kind |-> "response", status |-> 200, retryAfter |-> None, parses |-> FALSE, body |-> "<html>"],
     [kind |-> "response", status |-> 429, retryAfter |-> None, parses |-> FALSE, body |-> "slow down"],
     [kind |-> "response", status |-> 429, retryAfter |-> Some(<<"0">>), parses |-> FALSE, body |-> "slow down"],
     [kind |-> "response", status |-> 429, retryAfter |-> Some(<<"2">>), parses |-> FALSE, body |-> "slow down"],
     [kind |-> "response", status |-> 500, retryAfter |-> None, parses |-> FALSE, body |-> "boom"],
     [kind |-> "rejection", status |-> 0, retryAfter |-> None, parses |-> FALSE, body |-> ""]}

\* The errors fetchWithRetry raises.
HttpError(r) == [kind |-> "http", status |-> r.status, body |-> r.body]   \* line 72
JsonError == [kind |-> "syntax", status |-> 0, body |-> ""]               \* response.json() rejecting
NetError == [kind |-> "network", status |-> 0, body |-> ""]               \* fetch rejecting
ExhaustedError == [kind |-> "exhausted", status |-> 0, body |-> ""]       \* line 92

\* parseInt on the decimal digits a string starts with (a string that starts
\* with none gives NaN, which setTimeout takes as 0).
ParseInt(str) == DigitsValue(SubSeq(str, 1, RunLength(str, DigitChars)))

\* The same wait after every attempt.
BackoffConstant(f, i) == f.initialBackoffMs
\* Math.pow(2, i) * (this.rateLimitConfig.initialBackoffMs || 1000)
Backoff(f, i) == (2 ^ i) * f.initialBackoffMs

NoCall ==
    [pc |-> "idle", i |-> 0, retries |-> 0, now |-> 0, wake |-> 0,
     outcomes |-> << >>, result |-> None, error |-> None]

\* X = [f, c, log] is the instance, the call and the history; t is Date.now().
\* Line 49: the attempt's request goes out.
SendRequest(X, t) ==
    [X EXCEPT !.c.pc = "inflight",
              !.log.prevRequest = X.log.lastRequest,
              !.log.lastRequest = Some(t)]

\* Lines 127-128, then the first iteration of the loop of fetchWithRetry.
PassLimiter(X, t) ==
    SendRequest([X EXCEPT !.f.requestCount = @ + 1,
                          !.f.lastRequestTime = t,
                          !.log.passes = Append(@, t)], t)

\* Lines 121-125: the minimum interval, measured from the `now` taken at
\* the start of enforceRateLimit.
GapCheck(X, t) ==
    LET timeSinceLastRequest == X.c.now - X.f.lastRequestTime
    IN  IF timeSinceLastRequest < MinIntervalMs
        THEN [X EXCEPT !.c.pc = "sleepGap",
                       !.c.wake = t + (MinIntervalMs - timeSinceLastRequest)]
        ELSE PassLimiter(X, t)

\* Lines 98-113: the start of enforceRateLimit, up to its first await.
EnterLimiter(X, t) ==
    LET reset == t - X.f.requestWindowStart >= WindowDurationMs
        X1 == [X EXCEPT !.c.now = t,
                        !.f.requestCount = IF reset THEN 0 ELSE @,
                        !.f.requestWindowStart = IF reset THEN t ELSE @]
    IN  IF X1.f.requestCount >= X1.f.requestsPerMinute
        THEN [X1 EXCEPT !.c.pc = "sleepWindow",
                        !.c.wake = t + (WindowDurationMs - (t - X1.f.requestWindowStart))]
        ELSE GapCheck(X1, t)

\* i === retries - 1 written as i === retries.
IsLastAttemptOffByOne(i, retries) == i = retries
\* i === retries - 1
IsLastAttempt(i, retries) == i = retries - 1

\* Lines 75-89: the catch block of attempt i.
Catch(X, t, err) ==
    IF IsLastAttempt(X.c.i, X.c.retries)
    THEN [X EXCEPT !.c.pc = "raised", !.c.error = Some(err)]
    ELSE [X EXCEPT !.c.pc = "sleepBackoff", !.c.wake = t + Backoff(X.f, X.c.i)]

\* Lines 54-74: what attempt i does with the outcome r of its fetch.
HandleOutcome(X0, t, r) ==
    LET X == [X0 EXCEPT !.c.outcomes = Append(@, r)]
    IN  IF r.kind = "rejection" THEN Catch(X, t, NetError)
        ELSE IF r.status = 200
        THEN IF r.parses
             THEN [X EXCEPT !.c.pc = "returned", !.c.result = Some(r.body)]
             ELSE Catch(X, t, JsonError)
        ELSE IF r.status = 429
        THEN [X EXCEPT !.c.pc = "sleep429",
                       !.c.wake = t + (IF Has(r.retryAfter)
                                       THEN ParseInt(Val(r.retryAfter)) * 1000
                                       ELSE Backoff(X.f, X.c.i))]
        ELSE Catch(X, t, HttpError(r))

FetchInit ==
    /\ clock = EpochMs /\ probe = << >>
    /\ \E rpm \in RpmChoices, attempts \in RetryChoices :
          fetcher = [requestsPerMinute |-> rpm, retryAttempts |-> attempts,
                     initialBackoffMs |-> DefaultInitialBackoffMs,
                     lastRequestTime |-> 0, requestCount |-> 0,
                     requestWindowStart |-> EpochMs]
    /\ fcall = NoCall
    /\ flog = [prevRequest |-> None, lastRequest |-> None, passes |-> << >>, calls |-> 0]
    /\ MergeIdle /\ AggIdle /\ PriceIdle /\ MainIdle

\* The state after a step of the client.
FetchStep(X, t) ==
    /\ fetcher' = X.f /\ fcall' = X.c /\ flog' = X.log /\ clock' = t
    /\ UNCHANGED probe
    /\ UNCHANGED <<mergeVars, aggVars, priceVars, mainVars>>

\* A fetcher calls this.fetchWithRetry(url) once the previous call is over
\* (lines 30-36), some time after it.
CallFetchWithRetry ==
    /\ fcall.pc \in {"idle", "returned", "raised"} /\ flog.calls < MaxCalls
    /\ \E d \in IdleGaps :
          \E X \in {EnterLimiter([f |-> fetcher,
                                  c |-> [NoCall EXCEPT !.retries = fetcher.retryAttempts],
                                  log |-> [flog EXCEPT !.calls = @ + 1]], clock + d)} :
             FetchStep(X, clock + d)

\* Lines 113-118: the wait for the window is over.
WakeWindow ==
    /\ fcall.pc = "sleepWindow"
    /\ \E X \in {GapCheck([f |-> [fetcher EXCEPT !.requestCount = 0,
                                                 !.requestWindowStart = fcall.wake],
                           c |-> fcall, log |-> flog], fcall.wake)} :
          FetchStep(X, fcall.wake)

\* Lines 124-128: the wait for the minimum interval is over.
WakeGap ==
    /\ fcall.pc = "sleepGap"
    /\ \E X \in {PassLimiter([f |-> fetcher, c |-> fcall, log |-> flog], fcall.wake)} :
          FetchStep(X, fcall.wake)

\* Lines 49-89: the fetch of the attempt settles.
Respond ==
    /\ fcall.pc = "inflight"
    /\ \E r \in Responses, d \in Latencies :
          \E X \in {HandleOutcome([f |-> fetcher, c |-> fcall, log |-> flog], clock + d, r)} :
             FetchStep(X, clock + d)

\* Lines 66-67 and 88: the sleep is over, i++ and the loop condition; the
\* next attempt's request, or line 92 when the loop ends.
WakeRetry ==
    /\ fcall.pc \in {"sleep429", "sleepBackoff"}
    /\ LET X == [f |-> fetcher, c |-> [fcall EXCEPT !.i = @ + 1], log |-> flog]
       IN  \E Y \in {IF X.c.i < X.c.retries
                     THEN SendRequest(X, fcall.wake)
                     ELSE [X EXCEPT !.c.pc = "raised", !.c.error = Some(ExhaustedError)]} :
              FetchStep(Y, fcall.wake)

FetchNext == CallFetchWithRetry \/ WakeWindow \/ WakeGap \/ Respond \/ WakeRetry

SpecFetch == FetchInit /\ [][FetchNext]_vars

\* The attempt's response is a 2xx whose body parses / is a non-2xx response.
Succeeded(r) == r.kind = "response" /\ r.status \in 200..299 /\ r.parses
Non2xx(r) == r.kind = "response" /\ r.status \notin 200..299

\* Requests the current call has sent so far.
RequestsSent == Len(fcall.outcomes) + (IF fcall.pc = "inflight" THEN 1 ELSE 0)
LastOutcome == fcall.outcomes[Len(fcall.outcomes)]

\* C12 (as the code has it): a call of fetchWithRetry sends at most `retries`
\* requests; it returns the parsed body of the first 2xx response whose body
\* parses; otherwise it ends by raising once `retries` attempts have failed,
\* and a call that is under way can always take its next step.  The raised
\* error embeds the HTTP status and body text of the last response when that
\* response was a non-2xx other than 429; when the last attempt was answered
\* with 429 the error is the generic "Failed to fetch ... after N attempts",
\* which embeds neither, and when the last attempt's fetch or body parsing
\* threw, that exception is raised.
C12_RetryBounded ==
    /\ RequestsSent <= fcall.retries
    /\ fcall.pc \notin {"idle", "returned", "raised"} => ENABLED FetchNext
    /\ fcall.pc = "returned" =>
          /\ Succeeded(LastOutcome) /\ fcall.result = Some(LastOutcome.body)
          /\ \A k \in 1..(Len(fcall.outcomes) - 1) : ~Succeeded(fcall.outcomes[k])
    /\ fcall.pc = "raised" =>
          /\ Len(fcall.outcomes) = fcall.retries
          /\ \A k \in 1..Len(fcall.outcomes) : ~Succeeded(fcall.outcomes[k])
          /\ Non2xx(LastOutcome) /\ LastOutcome.status /= 429
                => fcall.error = Some(HttpError(LastOutcome))
          /\ Non2xx(LastOutcome) /\ LastOutcome.status = 429
                => fcall.error = Some(ExhaustedError)
          /\ LastOutcome.kind = "rejection" => fcall.error = Some(NetError)
          /\ LastOutcome.kind = "response" /\ LastOutcome.status \in 200..299
                => fcall.error = Some(JsonError)

\* A call with three attempts was answered 429, then anything, then 500, and
\* raised the error that embeds status 500 and its body.
C12_Witness ==
    /\ fcall.pc = "raised" /\ fcall.retries = DefaultRetryAttempts
    /\ fcall.outcomes[1].status = 429
    /\ LastOutcome.status = 500
    /\ fcall.error = Some([kind |-> "http", status |-> 500, body |-> "boom"])

\* C12 (as stated): whenever the call raised after its last attempt was
\* answered with a non-2xx response, the error embeds that response's HTTP
\* status and body text.
C12_ErrorEmbedsStatus ==
    fcall.pc = "raised" /\ Non2xx(LastOutcome) =>
        /\ Val(fcall.error).kind = "http"
        /\ Val(fcall.error).status = LastOutcome.status
        /\ Val(fcall.error).body = LastOutcome.body

\* C13: for one fetcher instance, any two consecutive outbound requests are
\* at least 100 ms apart, whether they belong to different calls of
\* fetchWithRetry or are successive attempts of one call.
C13_MinGapBetweenRequests ==
    Has(flog.prevRequest) =>
        Val(flog.lastRequest) - Val(flog.prevRequest) >= MinIntervalMs

\* The first request of a call is at least 100 ms after the time the
\* previous call passed the limiter: the part of C13 the code does enforce.
FirstRequestsSpaced ==
    \A k \in 1..(Len(flog.passes) - 1) :
        flog.passes[k + 1] - flog.passes[k] >= MinIntervalMs

\* C14: the limiter is a sliding one-minute window: no more than
\* requestsPerMinute calls pass it within any 60-second interval; a call that
\* arrives when the ceiling is reached is suspended until the window rolls
\* over, after which the counter restarts from that call.
C14_SlidingWindow ==
    /\ \A k \in 1..(Len(flog.passes) - fetcher.requestsPerMinute) :
          flog.passes[k + fetcher.requestsPerMinute] - flog.passes[k] >= WindowDurationMs
    /\ fetcher.requestCount <= fetcher.requestsPerMinute
    /\ fcall.pc = "sleepWindow" =>
          fcall.wake = fetcher.requestWindowStart + WindowDurationMs

\* What the code keeps: within one window (from requestWindowStart) at most
\* requestsPerMinute calls pass, and a suspended call wakes at the window's end.
FixedWindowCeiling ==
    /\ fetcher.requestCount <= fetcher.requestsPerMinute
    /\ fcall.pc = "sleepWindow" =>
          fcall.wake = fetcher.requestWindowStart + WindowDurationMs
    /\ Cardinality({k \in 1..Len(flog.passes) :
                       flog.passes[k] >= fetcher.requestWindowStart}) <= fetcher.requestsPerMinute

(***************************************************************************)
(* Static pricing fallback                                                 *)
(***************************************************************************)
\* The rows of the provider's static table (none when it has no table).
StaticRows(provider) ==
    IF Has(staticPricing(provider)) THEN Range(Val(staticPricing(provider))) ELSE {}

\* The exact row when there is one, else the default row when there is one,
\* else nothing.
ExactElseDefault(provider, modelId) ==
    LET exact == {r \in StaticRows(provider) : r.key = modelId}
        default == {r \in StaticRows(provider) : r.key = <<"default">>}
    IN  IF exact /= {} THEN Some((CHOOSE r \in exact : TRUE).value)
        ELSE IF default /= {} THEN Some((CHOOSE r \in default : TRUE).value)
        ELSE None

\* C15: getStaticPricing(provider, modelId) is the provider's exact row when
\* one exists, otherwise its 'default' row when one exists, otherwise
\* nothing; enrichWithStaticPricing returns every entry that has pricing
\* unchanged, and changes of the others only the pricing, to what
\* getStaticPricing gives for the entry's id (id, else model_id, else
\* 'unknown').
C15_StaticPricingFallback ==
    priceIn.op = "static" /\ Has(priceOut) =>
        LET es == priceIn.entries
            out == Val(priceOut)
        IN  /\ Len(out) = Len(es)
            /\ \A k \in 1..Len(es) :
                  LET modelId == IF Truthy(es[k].id) THEN Val(es[k].id)
                                 ELSE IF Truthy(es[k].model_id) THEN Val(es[k].model_id)
                                 ELSE <<"unknown">>
                  IN  /\ getStaticPricing(priceIn.provider, modelId)
                            = ExactElseDefault(priceIn.provider, modelId)
                      /\ Has(es[k].pricing) => out[k] = es[k]
                      /\ \A f \in DOMAIN es[k] \ {"pricing"} : out[k][f] = es[k][f]
                      /\ ~Has(es[k].pricing) =>
                            out[k].pricing = ExactElseDefault(priceIn.provider, modelId)

\* A groq list with an entry that kept its own pricing although the table
\* has a row for its id, and an entry named by model_id that got its row.
C15_Witness ==
    /\ priceIn.op = "static" /\ Has(priceOut) /\ priceIn.provider = "groq"
    /\ \E k, l \in 1..Len(priceIn.entries) :
          /\ priceIn.entries[k].pricing = Some(Price(Rat(1, 1), Rat(2, 1)))
          /\ Val(priceOut)[k].pricing = Some(Price(Rat(1, 1), Rat(2, 1)))
          /\ Has(getStaticPricing("groq", Val(priceIn.entries[k].id)))
          /\ ~Has(priceIn.entries[l].pricing)
          /\ Val(priceOut)[l].pricing = Some(Price(Rat(7, 100), Rat(7, 100)))

(***************************************************************************)
(* Provider names across the merge                                         *)
(***************************************************************************)
\* Lower-case first, then the alias table.
LowerThenAlias(name) ==
    IF Has(providerMap(ToLowerCase(name)))
    THEN Val(providerMap(ToLowerCase(name)))
    ELSE ToLowerCase(name)

\* The merge treats sub-entry k of canonical model i and aggregator provider
\* p as the same provider: p has matching raw entries, and k is the first
\* sub-entry whose lower-cased-then-aliased name is that of p.
SameProvider(i, k, p) ==
    LET provs == ProvidersOf(modelHeap0, hfModels[i])
        same(j) == LowerThenAlias(recHeap0[provs[j]].provider)
                      = LowerThenAlias(providerData[p].provider)
    IN  /\ Len(RawMatches(i, p)) > 0
        /\ same(k) /\ \A j \in 1..(k - 1) : ~same(j)

\* C17 (the function): normalizeProviderName lower-cases the name and then
\* applies the alias table, for every canonical provider name the loop has
\* looked up.
NormalizesLowerThenAlias ==
    \A i \in Processed :
        \A a \in Range(ProvidersOf(modelHeap0, hfModels[i])) :
            normalizeProviderName(recHeap0[a].provider) = LowerThenAlias(recHeap0[a].provider)

\* C17 (the comparison): a canonical sub-entry without context_length whose
\* normalized name is that of an aggregator provider with matching raw
\* entries that carry a context_length has one in the enriched list.
ComparesAfterNormalization ==
    \A i \in Processed :
        \A k \in 1..Len(ProvidersOf(modelHeap0, hfModels[i])) :
            \A p \in 1..Len(providerData) :
                (/\ SameProvider(i, k, p)
                 /\ ~Has(recHeap0[ProvidersOf(modelHeap0, hfModels[i])[k]].context_length)
                 /\ \E e \in Range(RawMatches(i, p)) : Has(recHeap0[e].context_length))
                => Has(recHeap[ProvidersOf(modelHeap, enrichedModels[i])[k]].context_length)

\* C17: provider-name normalization lower-cases the name and then applies
\* the alias table, so every casing of an aliased name maps to its short
\* form, and the merge compares a canonical provider name with an aggregator
\* provider name only after this normalization.
C17_LowerCaseThenAlias == NormalizesLowerThenAlias /\ ComparesAfterNormalization

\* The alias table applied to a name as it is.
Alias(name) == IF Has(providerMap(name)) THEN Val(providerMap(name)) ELSE name

\* C18: extractHFRouterData returns a map keyed by alias-normalized provider
\* names: every named sub-entry is found under the alias of its name
\* (fireworks-ai under fireworks), and the entry's provider field is that key.
C18_ExtractorAliasKeys ==
    priceIn.op = "extract" /\ Has(priceOut) =>
        /\ \A k \in 1..Len(priceIn.subs) :
              priceIn.subs[k].provider /= "" =>
                  MapHas(Val(priceOut), Alias(priceIn.subs[k].provider))
        /\ \A j \in 1..Len(Val(priceOut)) :
              /\ Val(priceOut)[j].key = Alias(Val(priceOut)[j].key)
              /\ Val(priceOut)[j].value.provider = Val(priceOut)[j].key

\* What the extractor does: every named sub-entry is found under its own
\* name, which is also the entry's provider field.
ExtractorRawKeys ==
    priceIn.op = "extract" /\ Has(priceOut) =>
        /\ {Val(priceOut)[j].key : j \in 1..Len(Val(priceOut))}
              = {priceIn.subs[k].provider : k \in 1..Len(priceIn.subs)} \ {""}
        /\ \A j \in 1..Len(Val(priceOut)) :
              Val(priceOut)[j].value.provider = Val(priceOut)[j].key

\* C19: every provider record of the enriched list has a status that is
\* absent or one of live, offline, deprecated; a canonical sub-entry whose
\* status is staging appears with status offline.
C19_StagingBecomesOffline ==
    \A i \in Processed :
        \A k \in 1..Len(ProvidersOf(modelHeap0, hfModels[i])) :
            LET before == recHeap0[ProvidersOf(modelHeap0, hfModels[i])[k]]
                after == recHeap[ProvidersOf(modelHeap, enrichedModels[i])[k]]
            IN  /\ Has(after.status) => Val(after.status) \in {"live", "offline", "deprecated"}
                /\ before.status = Some("staging") => after.status = Some("offline")


(***************************************************************************)
(* main: merge, optional performance tests (testAllProviders), output      *)
(***************************************************************************)
DefaultBatchSize == 20   \* batchSize when --batch-size is not given

\* Canonical lists of a run: two models, one with two providers; a model
\* without providers list; one model listing the same provider twice; one
\* model whose provider reports context_length 0.
MainLists ==
    {<<[id |-> HfIdFoo, providers |-> Some(<<CanonBare("sambanova"), CanonBare("featherless-ai")>>)],
       [id |-> HfIdBar, providers |-> Some(<<CanonBare("sambanova")>>)]>>,
     <<[id |-> HfIdFoo, providers |-> None],
       [id |-> HfIdBar, providers |-> Some(<<CanonPriced("sambanova")>>)]>>,
     <<[id |-> HfIdFoo, providers |-> Some(<<CanonPriced("sambanova"), CanonBare("sambanova")>>)]>>,
     <<[id |-> HfIdFoo,
        providers |-> Some(<<[CanonCaps("sambanova") EXCEPT !.context_length = Some(0)]>>)]>>}

\* What the aggregator returns in a run.
MainFetched ==
    {<<[provider |-> "sambanova", entries |-> << >>],
       [provider |-> "featherless", entries |-> << >>]>>,
     <<[provider |-> "sambanova",
        entries |-> <<CHOOSE r \in RawSambanova : r.id = Some(<<"foo">>)>>],
       [provider |-> "featherless", entries |-> << >>]>>}

\* --test-limit, --batch-size and --test-providers as the parser leaves them.
TestLimits == {None, Some(1)}
BatchSizes == {1, 2, DefaultBatchSize}
TestProviders == {None, Some({"sambanova"})}

\* The numbers of the batch loop: <<n>> is the integer n, << >> is NaN.
JsNum(n) == <<n>>
JsNaN == << >>
IsNaN(x) == x = << >>
\* x + y and x < y on these numbers: NaN is contagious and compares false.
JsAdd(x, y) == IF IsNaN(x) \/ IsNaN(y) THEN JsNaN ELSE JsNum(x[1] + y[1])
JsLess(x, y) == ~IsNaN(x) /\ ~IsNaN(y) /\ x[1] < y[1]

\* parseInt(str, 10): an optional sign, then the decimal digits the string
\* goes on with; NaN when there is none.
parseInt10(str) ==
    LET signed == str /= << >> /\ Head(str) \in {"-", "+"}
        rest == IF signed THEN Tail(str) ELSE str
        n == RunLength(rest, DigitChars)
        magnitude == DigitsValue(SubSeq(rest, 1, n))
    IN  IF n = 0 THEN JsNaN
        ELSE IF signed /\ Head(str) = "-" THEN JsNum(0 - magnitude)
        ELSE JsNum(magnitude)

\* Lines 474-477: the batch size main passes on for a --batch-size argument
\* (None when the option is not given).
BatchSizeOf(arg) ==
    IF Has(arg) /\ Val(arg) /= << >> THEN parseInt10(Val(arg))
    ELSE JsNum(DefaultBatchSize)

\* Values of --batch-size on the command line.
BatchSizeArgs ==
    {None, Some(<<"2">>), Some(<<"0">>), Some(<<"-", "1">>), Some(<<"a", "b", "c">>)}

\* Bound of the model: the batches one run of testAllProviders may start.
MaxBatches == 4

\* The indices (from 1) of the elements that array.slice(start, end) takes
\* from an array of n elements.
SliceIndices(n, start, end) ==
    LET relative(v) == IF IsNaN(v) THEN 0
                       ELSE IF v[1] < 0 THEN (IF n + v[1] < 0 THEN 0 ELSE n + v[1])
                       ELSE IF v[1] > n THEN n ELSE v[1]
    IN  {j \in 1..n : relative(start) < j /\ j <= relative(end)}

\* allPairs.slice(i, i + batchSize)
BatchIndices(m) == SliceIndices(Len(m.allPairs), m.i, JsAdd(m.i, m.batchSize))

\* A pause after every batch, the last included.
PauseAlways(i, batchSize, n) == TRUE
\* Line 420: i + batchSize < allPairs.length
PauseNeeded(i, batchSize, n) == JsLess(JsAdd(i, batchSize), JsNum(n))

\* allPairs.push([m.id, p.provider, p]) with the first provider record of the
\* model in place of p.
PairForFirst(mh, rh, a, addr) ==
    [modelId |-> mh[a].id, providerName |-> rh[addr].provider,
     prov |-> Head(ProvidersOf(mh, a))]
\* allPairs.push([m.id, p.provider, p])
PairFor(mh, rh, a, addr) ==
    [modelId |-> mh[a].id, providerName |-> rh[addr].provider, prov |-> addr]

\* Lines 375-380: the triples of the models of subset, in order.
RECURSIVE AllPairsLoop(_, _, _, _)
AllPairsLoop(mh, rh, subset, filter) ==
    IF subset = << >> THEN << >>
    ELSE LET m == Head(subset)
             Kept(addr) == ~Has(filter) \/ rh[addr].provider \in Val(filter)
             kept == SelectSeq(ProvidersOf(mh, m), Kept)
         IN  [k \in 1..Len(kept) |-> PairFor(mh, rh, m, kept[k])]
                \o AllPairsLoop(mh, rh, Tail(subset), filter)

\* Lines 373-381.
AllPairs(mh, rh, models, limit, filter) ==
    AllPairsLoop(mh, rh,
                 IF Has(limit) THEN Slice(models, 0, Val(limit)) ELSE models,
                 filter)

MainInitWith(sizes) ==
    /\ \E ms \in MainLists :
          LET H == AllocModels(ms, [mh |-> << >>, rh |-> << >>, list |-> << >>])
          IN  /\ modelHeap = H.mh /\ recHeap = H.rh /\ hfModels = H.list
              /\ modelHeap0 = H.mh /\ recHeap0 = H.rh
    /\ fetched \in MainFetched
    /\ providerData = << >> /\ enrichedModels = << >> /\ stats = ZeroStats
    /\ matchedProviderData = << >> /\ matchedProviderKeys = {} /\ unmatchedCount = 0
    /\ mpc = "call" /\ mi = 0 /\ rerun = << >> /\ refed = << >> /\ probed = {}
    /\ \E tp \in BOOLEAN, tok \in BOOLEAN, lim \in TestLimits, bs \in sizes,
          flt \in TestProviders :
          main = [pc |-> "start", testPerformance |-> tp, hfToken |-> tok,
                  testLimit |-> lim, batchSize |-> bs, testProviders |-> flt,
                  allPairs |-> << >>, i |-> JsNum(0), inflight |-> {},
                  batches |-> << >>, pauses |-> 0,
                  tested |-> 0, errors |-> 0,
                  statusDist |-> [live |-> 0, offline |-> 0, not_tested |-> 0],
                  perfRan |-> FALSE, out |-> None]
    /\ AggIdle /\ ProbeIdle /\ PriceIdle /\ FetchIdle

\* A run with a batch size of 1, 2 or the default.
MainInit == MainInitWith({JsNum(b) : b \in BatchSizes})

MainUnchanged == UNCHANGED <<aggVars, probeVars, priceVars, fetchVars>>
MergeUnchanged ==
    UNCHANGED <<recHeap, modelHeap, recHeap0, modelHeap0, hfModels, fetched,
                providerData, enrichedModels, stats, matchedProviderData,
                matchedProviderKeys, unmatchedCount, mpc, mi, rerun, refed, probed>>

\* Lines 527-532: enrichHuggingfaceModels(hfModels, aggregator), to its return.
MainEnrich ==
    /\ main.pc = "start"
    /\ \E H \in {AllocRaw(fetched, [rh |-> recHeap, pd |-> << >>])} :
       \E r \in {EnrichAll(modelHeap, H.rh, H.pd, hfModels)} :
          /\ recHeap' = r.rh /\ recHeap0' = H.rh /\ modelHeap' = r.mh
          /\ providerData' = H.pd /\ enrichedModels' = r.out /\ stats' = r.stats
          /\ matchedProviderData' = r.matched /\ matchedProviderKeys' = r.keys
          /\ unmatchedCount' = UnmatchedCount(H.pd, r.rh, r.keys)
    /\ mpc' = "done"
    /\ main' = [main EXCEPT !.pc = "enriched"]
    /\ UNCHANGED <<modelHeap0, hfModels, fetched, mi, rerun, refed, probed>>
    /\ MainUnchanged

\* Lines 535-540: no --test-performance, or no HF_TOKEN (the error is logged).
SkipPerformance ==
    /\ main.pc = "enriched" /\ ~(main.testPerformance /\ main.hfToken)
    /\ main' = [main EXCEPT !.pc = "save"]
    /\ MergeUnchanged /\ MainUnchanged

\* Lines 541-551 and 373-396: testAllProviders is called and builds allPairs.
TestAllProvidersStart ==
    /\ main.pc = "enriched" /\ main.testPerformance /\ main.hfToken
    /\ main' = [main EXCEPT !.pc = "batch", !.perfRan = TRUE,
                            !.allPairs = AllPairs(modelHeap, recHeap, enrichedModels,
                                                  main.testLimit, main.testProviders)]
    /\ MergeUnchanged /\ MainUnchanged

\* Lines 396-403 and 356-358: the batch's probes are started together.
StartProbeBatch ==
    /\ main.pc = "batch" /\ JsLess(main.i, JsNum(Len(main.allPairs)))
    /\ Len(main.batches) < MaxBatches
    /\ main' = [main EXCEPT !.pc = "await",
                            !.inflight = BatchIndices(main),
                            !.batches = Append(@, BatchIndices(main))]
    /\ MergeUnchanged /\ MainUnchanged

\* Lines 358-361: the probe of triple j resolves, and its callback assigns
\* the result to the triple's record.
ProbeSettles(j) ==
    /\ main.pc = "await" /\ j \in main.inflight
    /\ \E res \in ProbeResults :
          recHeap' = [recHeap EXCEPT ![main.allPairs[j].prov] = ObjectAssign(@, res)]
    /\ main' = [main EXCEPT !.inflight = @ \ {j}]
    /\ UNCHANGED <<modelHeap, recHeap0, modelHeap0, hfModels, fetched,
                   providerData, enrichedModels, stats, matchedProviderData,
                   matchedProviderKeys, unmatchedCount, mpc, mi, rerun, refed, probed>>
    /\ MainUnchanged

\* Lines 405-422: Promise.all has resolved; the tally, then the pause before
\* the next batch if there is one.
BatchDone ==
    /\ main.pc = "await" /\ main.inflight = {}
    /\ LET batch == BatchIndices(main)
           rec(j) == recHeap[main.allPairs[j].prov]
           with(st) == Cardinality({j \in batch : rec(j).status = Some(st)})
       IN  main' = [main EXCEPT
                      !.tested = @ + Cardinality(batch),
                      !.errors = @ + Cardinality({j \in batch :
                                        /\ Has(rec(j).performance_error)
                                        /\ Val(rec(j).performance_error) /= ""}),
                      !.statusDist.live = @ + with("live"),
                      !.statusDist.offline = @ + with("offline"),
                      !.statusDist.not_tested =
                            @ + Cardinality(batch) - with("live") - with("offline"),
                      !.i = JsAdd(@, main.batchSize),
                      !.pc = IF PauseNeeded(main.i, main.batchSize, Len(main.allPairs))
                             THEN "pause" ELSE "batch"]
    /\ MergeUnchanged /\ MainUnchanged

\* Lines 420-422: the one-second pause is over.
PauseOver ==
    /\ main.pc = "pause"
    /\ main' = [main EXCEPT !.pc = "batch", !.pauses = @ + 1]
    /\ MergeUnchanged /\ MainUnchanged

\* Lines 396 and 425-430: the loop ends and testAllProviders returns.
TestAllProvidersReturn ==
    /\ main.pc = "batch" /\ ~JsLess(main.i, JsNum(Len(main.allPairs)))
    /\ main' = [main EXCEPT !.pc = "save"]
    /\ MergeUnchanged /\ MainUnchanged

\* Lines 565-591: the two files are written.
SaveOutput ==
    /\ main.pc = "save"
    /\ main' = [main EXCEPT
                  !.pc = "done",
                  !.out = Some([data |-> DeepList(modelHeap, recHeap, enrichedModels),
                                metadata |->
                                   [total_models |-> Len(enrichedModels),
                                    models_enriched |-> stats.models_enriched,
                                    providers_enriched |-> stats.providers_enriched,
                                    performance_tested |-> main.testPerformance,
                                    providers_fetched |-> stats.providers_fetched],
                                raw |-> matchedProviderData])]
    /\ MergeUnchanged /\ MainUnchanged

MainNext ==
    \/ MainEnrich \/ SkipPerformance \/ TestAllProvidersStart \/ StartProbeBatch
    \/ (\E j \in 1..Len(main.allPairs) : ProbeSettles(j))
    \/ BatchDone \/ PauseOver \/ TestAllProvidersReturn \/ SaveOutput

SpecMain == MainInit /\ [][MainNext]_vars

\* The triples of a run reference pairwise distinct records, each a record
\* of the enriched list.
TriplesDistinct ==
    main.pc \notin {"start", "enriched"} =>
        /\ \A j, l \in 1..Len(main.allPairs) :
              main.allPairs[j].prov = main.allPairs[l].prov => j = l
        /\ \A j \in 1..Len(main.allPairs) :
              main.allPairs[j].prov \in ProbeTargets(modelHeap, enrichedModels)

\* A step taken while probes are in flight changes no record but that of
\* the triple of the one probe that settles in it, and no other probe in
\* flight holds that record.
WritesOwnRecord ==
    main.pc = "await" =>
        \A a \in 1..Len(recHeap) :
            recHeap'[a] /= recHeap[a] =>
                \E j \in main.inflight \ main'.inflight :
                    /\ main.allPairs[j].prov = a
                    /\ \A l \in main.inflight \ {j} : main.allPairs[l].prov /= a

\* C16: during testAllProviders every (model, provider, record) triple built
\* for the run references a distinct record object, each probe writes only
\* to the record of its own triple, and so no two probes that are in flight
\* at the same time write to the same record.
C16_ProbesWritePrivateRecords == []TriplesDistinct /\ [][WritesOwnRecord]_vars

\* Two probes of one batch, on the two provider records of one model: one
\* has written its result, the other is still in flight.
C16_Witness ==
    /\ main.pc = "await"
    /\ \E j \in main.inflight :
       \E l \in 1..Len(main.allPairs) :
          /\ l \notin main.inflight /\ l \in BatchIndices(main)
          /\ main.allPairs[l].modelId = main.allPairs[j].modelId
          /\ Has(recHeap[main.allPairs[l].prov].performance_tested_at)
          /\ ~Has(recHeap[main.allPairs[j].prov].performance_tested_at)

\* C20: metadata.performance_tested of the written file is true if and only
\* if testAllProviders was executed in the run; when performance testing is
\* requested without HF_TOKEN, probing is skipped, no record receives
\* performance fields, the output is still written and performance_tested
\* is false.
C20_PerformanceTestedRecorded ==
    main.pc = "done" =>
        /\ Has(main.out)
        /\ Val(main.out).metadata.performance_tested = main.perfRan
        /\ ~main.perfRan =>
              \A a \in ProbeTargets(modelHeap, enrichedModels) :
                  /\ ~Has(recHeap[a].latency_s) /\ ~Has(recHeap[a].throughput_tps)
                  /\ ~Has(recHeap[a].performance_error)
                  /\ ~Has(recHeap[a].performance_tested_at)

\* What holds of a run without HF_TOKEN: probing is skipped, no record has
\* performance fields, and the file is written.
SkippedRunStillSaved ==
    main.pc = "done" /\ ~main.hfToken =>
        /\ ~main.perfRan /\ Has(main.out)
        /\ \A a \in ProbeTargets(modelHeap, enrichedModels) :
              /\ ~Has(recHeap[a].latency_s) /\ ~Has(recHeap[a].throughput_tps)
              /\ ~Has(recHeap[a].performance_error)
              /\ ~Has(recHeap[a].performance_tested_at)


(***************************************************************************)
(* Backoff schedule of fetchWithRetry                                      *)
(***************************************************************************)
\* The number of seconds a Retry-After header value denotes.
HeaderSeconds(str) ==
    CASE str = <<"0">> -> 0
      [] str = <<"2">> -> 2

\* While the call sleeps after attempt i, the wait is what the schedule says.
WaitsBySchedule ==
    /\ fcall.pc = "sleep429" =>
          /\ LastOutcome.status = 429
          /\ fcall.wake - clock =
                IF Has(LastOutcome.retryAfter)
                THEN HeaderSeconds(Val(LastOutcome.retryAfter)) * 1000
                ELSE (2 ^ fcall.i) * fetcher.initialBackoffMs
    /\ fcall.pc = "sleepBackoff" =>
          /\ ~Succeeded(LastOutcome) /\ LastOutcome.status /= 429
          /\ fcall.i < fcall.retries - 1
          /\ fcall.wake - clock = (2 ^ fcall.i) * fetcher.initialBackoffMs

\* A step out of a sleep between attempts is taken at the wake time, sends
\* the next attempt's request if there is one, and leaves the limiter's
\* counters as they are.
RetryKeepsCounter ==
    fcall.pc \in {"sleep429", "sleepBackoff"} =>
        /\ clock' = fcall.wake
        /\ fcall'.pc = "inflight" =>
              /\ fcall'.i = fcall.i + 1
              /\ flog'.lastRequest = Some(fcall.wake)
        /\ fetcher'.requestCount = fetcher.requestCount
        /\ fetcher'.requestWindowStart = fetcher.requestWindowStart
        /\ flog'.passes = flog.passes

\* C21: after a 429 on attempt i the caller waits the Retry-After header's
\* number of seconds when the header is present and 2^i * initialBackoffMs
\* otherwise; after any other failed attempt that is not the last it waits
\* 2^i * initialBackoffMs; the retries do not increment the rate limiter's
\* request counter.
C21_BackoffSchedule == []WaitsBySchedule /\ [][RetryKeepsCounter]_vars

\* The second attempt (i = 1) failed with a 500 and the call waits 2000 ms,
\* after a first attempt answered 429 with Retry-After: 2.
C21_Witness ==
    /\ fcall.pc = "sleepBackoff" /\ fcall.i = 1
    /\ fcall.wake - clock = 2000
    /\ fcall.outcomes[1].status = 429 /\ fcall.outcomes[1].retryAfter = Some(<<"2">>)
    /\ fetcher.requestCount = 1


(***************************************************************************)
(* What the merge writes onto a provider record                            *)
(***************************************************************************)
\* Sub-entry k of canonical model i before the merge, and after it.
Before(i, k) == recHeap0[ProvidersOf(modelHeap0, hfModels[i])[k]]
After(i, k) == recHeap[ProvidersOf(modelHeap, enrichedModels[i])[k]]

\* The raw records of the same provider matched to model i: those of the
\* aggregator providers whose lower-cased name is the normalized name of
\* the sub-entry.
RawOfSameProvider(i, k) ==
    UNION {Range(RawMatches(i, p)) :
              p \in {q \in 1..Len(providerData) :
                        ToLowerCase(providerData[q].provider)
                           = normalizeProviderName(Before(i, k).provider)}}

AddableFields ==
    {"pricing", "context_length", "supports_tools", "supports_structured_output",
     "supports_streaming"}

\* C22: when the merge has returned, every field present on a canonical
\* entry has its pre-merge value; a field that was absent and is present now
\* is pricing, context_length or a supports_* flag and has the value of a raw
\* record of the same provider matched to the model; id and model_id are
\* what they were.
C22_OnlyAbsentFieldsAdded ==
    main.pc = "enriched" =>
        \A i \in Processed :
            \A k \in 1..Len(ProvidersOf(modelHeap0, hfModels[i])) :
                /\ \A f \in DOMAIN Before(i, k) \ {"provider"} :
                      Has(Before(i, k)[f]) => After(i, k)[f] = Before(i, k)[f]
                /\ \A f \in DOMAIN Before(i, k) \ {"provider"} :
                      ~Has(Before(i, k)[f]) /\ Has(After(i, k)[f]) =>
                          /\ f \in AddableFields
                          /\ \E e \in RawOfSameProvider(i, k) :
                                recHeap0[e][f] = After(i, k)[f]
                /\ After(i, k).id = Before(i, k).id
                /\ After(i, k).model_id = Before(i, k).model_id
                /\ After(i, k).provider = Before(i, k).provider

\* The same with "present" read as the code reads it for context_length
\* (a context_length of 0 counts as absent).
OnlyFalsyFieldsFilled ==
    main.pc = "enriched" =>
        \A i \in Processed :
            \A k \in 1..Len(ProvidersOf(modelHeap0, hfModels[i])) :
                /\ \A f \in DOMAIN Before(i, k) \ {"provider"} :
                      Has(Before(i, k)[f])
                        /\ ~(f = "context_length" /\ Before(i, k)[f] = Some(0))
                          => After(i, k)[f] = Before(i, k)[f]
                /\ \A f \in DOMAIN Before(i, k) \ {"provider"} :
                      After(i, k)[f] /= Before(i, k)[f] =>
                          /\ f \in AddableFields
                          /\ \E e \in RawOfSameProvider(i, k) :
                                recHeap0[e][f] = After(i, k)[f]


(***************************************************************************)
(* stats.models_enriched                                                   *)
(***************************************************************************)
\* Some provider entry of model i got its pricing from the merge.
NewlyPriced(i) ==
    \E k \in 1..Len(ProvidersOf(modelHeap0, hfModels[i])) :
        ~Has(Before(i, k).pricing) /\ Has(After(i, k).pricing)

\* The canonical model i carries pricing the priority pass counts: a named
\* sub-entry with pricing that no later sub-entry of the same name replaces
\* in the extractor's map.
CanonicalPricingCounted(i) ==
    \E k \in 1..Len(ProvidersOf(modelHeap0, hfModels[i])) :
        /\ Before(i, k).provider /= "" /\ Has(Before(i, k).pricing)
        /\ \A j \in (k + 1)..Len(ProvidersOf(modelHeap0, hfModels[i])) :
              Before(i, j).provider /= Before(i, k).provider

\* C23 (as the code has it): models_enriched grows by at most one per
\* canonical model and never exceeds total_models; it counts the models for
\* which the canonical source already supplied pricing for a provider or
\* some provider entry's pricing was newly populated by the merge.
C23_ModelsEnrichedCount ==
    mpc \in {"loop", "done"} =>
        /\ stats.models_enriched <= stats.total_models
        /\ stats.models_enriched
              = Cardinality({i \in Processed :
                                CanonicalPricingCounted(i) \/ NewlyPriced(i)})

\* The merge has returned and counted a model none of whose pricing fields
\* was newly populated, next to a model it did not count.
C23_Witness ==
    /\ mpc = "done" /\ stats.models_enriched = 1
    /\ \E i, j \in Processed :
          /\ CanonicalPricingCounted(i) /\ ~NewlyPriced(i)
          /\ ~CanonicalPricingCounted(j) /\ ~NewlyPriced(j)

\* C23 (as stated): models_enriched counts exactly the models for which some
\* provider entry's pricing was newly populated by the merge.
C23_CountsNewlyPopulated ==
    mpc \in {"loop", "done"} =>
        /\ stats.models_enriched <= stats.total_models
        /\ stats.models_enriched = Cardinality({i \in Processed : NewlyPriced(i)})


(***************************************************************************)
(* The unmatched count                                                     *)
(***************************************************************************)
\* The raw records of the aggregator map, as (provider index, entry index).
RawPairs ==
    {q \in (1..Len(providerData)) \X (1..MaxRaw) : q[2] <= Len(providerData[q[1]].entries)}

RawAt(q) == recHeap0[providerData[q[1]].entries[q[2]]]

\* Raw record q was matched to canonical model i and its provider resolved
\* to one of that model's provider entries.
MatchedTo(q, i) ==
    /\ \E n \in 1..Len(RawMatches(i, q[1])) :
          RawMatches(i, q[1])[n] = providerData[q[1]].entries[q[2]]
    /\ FindProvider(ProvidersOf(modelHeap0, hfModels[i]), recHeap0,
                    ToLowerCase(providerData[q[1]].provider)) /= 0

NeverMatched ==
    {q \in RawPairs : /\ EntryId(RawAt(q)) /= << >>
                      /\ \A i \in 1..Len(hfModels) : ~MatchedTo(q, i)}

\* C24: after all models are processed, the unmatched count equals the
\* number of aggregator records with a non-empty id that were never matched
\* to any canonical model's provider entry.
C24_UnmatchedCountsNeverMatched ==
    mpc = "done" => unmatchedCount = Cardinality(NeverMatched)

\* What holds: every never-matched record with an id is counted, so the
\* count is never below the number of such records.
UnmatchedCountAtLeast ==
    mpc = "done" => unmatchedCount >= Cardinality(NeverMatched)


(***************************************************************************)
(* Static pricing of a record without an id                                *)
(***************************************************************************)
\* A raw record that lacks pricing and exposes neither id nor model_id.
Anonymous(entry) ==
    ~Has(entry.pricing) /\ ~Truthy(entry.id) /\ ~Truthy(entry.model_id)

\* The provider's 'default' row, when its table has one.
DefaultRow(provider) ==
    LET default == {r \in StaticRows(provider) : r.key = <<"default">>}
    IN  IF default /= {} THEN Some((CHOOSE r \in default : TRUE).value) ELSE None

\* C25 (as the code has it): a raw record that lacks pricing and exposes
\* neither id nor model_id is looked up under 'unknown'; it leaves the
\* static-pricing step without pricing exactly when the provider's table has
\* no 'default' row, and with the default row's pricing otherwise.
C25_UnknownIdGetsDefaultRow ==
    priceIn.op = "static" /\ Has(priceOut) =>
        \A k \in 1..Len(priceIn.entries) :
            Anonymous(priceIn.entries[k]) =>
                /\ extractModelId(priceIn.entries[k]) = <<"unknown">>
                /\ Val(priceOut)[k].pricing = DefaultRow(priceIn.provider)

\* A featherless record without an id has left the step with the default
\* pricing.
C25_Witness ==
    /\ priceIn.op = "static" /\ Has(priceOut) /\ priceIn.provider = "featherless"
    /\ \E k \in 1..Len(priceIn.entries) :
          /\ Anonymous(priceIn.entries[k])
          /\ Val(priceOut)[k].pricing = Some(Price(Rat(10, 100), Rat(10, 100)))

\* C25 (as stated): for every provider, a raw record that lacks pricing and
\* exposes neither id nor model_id leaves the static-pricing step still
\* without pricing.
C25_UnknownIdStaysUnpriced ==
    priceIn.op = "static" /\ Has(priceOut) =>
        \A k \in 1..Len(priceIn.entries) :
            Anonymous(priceIn.entries[k]) => ~Has(Val(priceOut)[k].pricing)


(***************************************************************************)
(* The batches of testAllProviders                                         *)
(***************************************************************************)
\* testAllProviders has returned to main.
Returned == main.perfRan /\ main.pc \in {"save", "done"}

\* The b-th run of batchSize consecutive positions of allPairs.
ConsecutiveRun(b) ==
    {j \in 1..Len(main.allPairs) :
        (b - 1) * main.batchSize[1] < j /\ j <= b * main.batchSize[1]}

\* The probe of triple j has resolved and its result is on the record.
Probed(j) == Has(recHeap[main.allPairs[j].prov].performance_tested_at)

\* The batches started so far are the consecutive runs of allPairs in list
\* order, the probes in flight belong to the latest batch and every earlier
\* batch has resolved; one pause has elapsed between any two batches, and
\* none after the last; at the return every pair was probed in one batch.
BatchesInOrder ==
    /\ \A b \in 1..Len(main.batches) :
          /\ main.batches[b] = ConsecutiveRun(b) /\ main.batches[b] /= {}
          /\ Cardinality(main.batches[b]) <= main.batchSize[1]
          /\ b < Len(main.batches) => \A j \in main.batches[b] : Probed(j)
    /\ main.pc = "await" =>
          /\ main.inflight \subseteq main.batches[Len(main.batches)]
          /\ \A j \in main.batches[Len(main.batches)] \ main.inflight : Probed(j)
          /\ main.pauses = Len(main.batches) - 1
    /\ main.pc = "pause" =>
          /\ main.pauses = Len(main.batches) - 1
          /\ Len(main.batches) * main.batchSize[1] < Len(main.allPairs)
    /\ Returned =>
          /\ main.pauses = (IF main.batches = << >> THEN 0 ELSE Len(main.batches) - 1)
          /\ \A j \in 1..Len(main.allPairs) :
                /\ Cardinality({b \in 1..Len(main.batches) : j \in main.batches[b]}) = 1
                /\ Probed(j)

\* A step that starts a batch starts all its probes together, when no probe
\* of the batch before is in flight and the pause after it has elapsed.
BatchStartsTogether ==
    Len(main'.batches) > Len(main.batches) =>
        /\ main'.inflight = main'.batches[Len(main'.batches)]
        /\ \A j \in main'.inflight : ~Probed(j)
        /\ main.inflight = {}
        /\ main.pauses = Len(main.batches)

Summary ==
    [total_tested |-> main.tested, successful |-> main.tested - main.errors,
     errors |-> main.errors, status_distribution |-> main.statusDist]

ProbeResolves(i) ==
    probe[i].pc = "done" =>
        /\ Has(probe[i].result)
        /\ Val(probe[i].result).status \in {"live", "offline"}
        /\ Val(probe[i].result).status = "live" =>
              /\ probe[i].rejected = None /\ Has(probe[i].latency)
              /\ Val(probe[i].result).latency_ms = probe[i].latency
              /\ ~Has(Val(probe[i].result).performance_error)
        /\ Val(probe[i].result).status = "offline" =>
              Has(Val(probe[i].result).performance_error)
        /\ Has(probe[i].rejected) => Val(probe[i].result).status = "offline"
        /\ probe[i].rejected = Some("AbortError") =>
              Val(probe[i].result).performance_error = Some("Request timeout")

\* The record of a probe whose callback has run: status, timestamp, and the
\* latency and throughput or else the error message of the result.
ProbeWritten(i) ==
    probe[i].written =>
        /\ probe[i].prov.status = Some(Val(probe[i].result).status)
        /\ Has(probe[i].prov.performance_tested_at)
        /\ Val(probe[i].result).status = "live" =>
              /\ probe[i].prov.latency_s = Some(Rat(Val(probe[i].latency), 1000))
              /\ Has(probe[i].prov.throughput_tps)
        /\ Val(probe[i].result).status = "offline" =>
              probe[i].prov.performance_error = Val(probe[i].result).performance_error

\* No record is changed before its probe has resolved, and every probe that
\* has resolved has run its callback whatever became of the others.
ProbeUndisturbed(i) ==
    /\ ~probe[i].written => probe[i].prov = NewProbe.prov
    /\ probe[i].pc = "done" => probe[i].written

\* A step after the start of the batch changes one probe only.
OneProbePerStep ==
    \A i, j \in 1..Len(probe) :
        probe'[i] /= probe[i] /\ probe'[j] /= probe[j] /\ i /= j => probe[i].pc = "idle"

StoresNoId(p) ==
    /\ providerData[p].entries /= << >>
    /\ \A n \in 1..Len(providerData[p].entries) :
          EntryId(recHeap0[providerData[p].entries[n]]) = << >>

\* The supplemental pass takes field f for a record that looks like rec
\* (lines 191-194, 224), and takes it from a raw record that looks like raw
\* (lines 200-223).
Lacks(rec, f) ==
    IF f = "context_length" THEN ~Has(rec[f]) \/ rec[f] = Some(0) ELSE ~Has(rec[f])
Carries(raw, f) ==
    IF f = "context_length" THEN Has(raw[f]) /\ raw[f] /= Some(0) ELSE Has(raw[f])

\* The first raw entry of provider p that carries field f.
FirstCarrying(p, f) ==
    LET es == providerData[p].entries
        with == {n \in 1..Len(es) : Carries(recHeap0[es[n]], f)}
    IN  recHeap0[es[CHOOSE n \in with : \A m \in with : n <= m]]

\* C29: a raw entry that exposes neither id nor model_id matches every
\* canonical model; so for a provider whose entries have no id, every
\* canonical entry the provider resolves to that lacks a field receives it
\* from the first raw entry of the provider that has the field, whichever
\* model the canonical entry belongs to.
C29_EntryWithoutIdMatchesAll ==
    \A p \in 1..Len(providerData) :
        StoresNoId(p) =>
            \A i \in Processed :
                /\ RawMatches(i, p) = providerData[p].entries
                /\ \A k \in 1..Len(ProvidersOf(modelHeap0, hfModels[i])) :
                      (/\ ResolvesTo(i, k, p)
                       /\ \A q \in 1..(p - 1) : ~ResolvesTo(i, k, q))
                      => \A f \in AddableFields :
                            (/\ Lacks(Before(i, k), f)
                             /\ \E n \in 1..Len(providerData[p].entries) :
                                   Carries(recHeap0[providerData[p].entries[n]], f))
                            => After(i, k)[f] = FirstCarrying(p, f)[f]

\* Two canonical models with different ids, each with a featherless entry
\* that has no context_length; the provider returned two entries without id,
\* the first without context_length, and both models got the context_length
\* of the second.
C29_Witness ==
    /\ mpc = "done" /\ Len(enrichedModels) = 2
    /\ modelHeap0[hfModels[1]].id /= modelHeap0[hfModels[2]].id
    /\ \E p \in 1..Len(providerData) :
          /\ StoresNoId(p) /\ Len(providerData[p].entries) = 2
          /\ ~Has(recHeap0[providerData[p].entries[1]].context_length)
          /\ recHeap0[providerData[p].entries[2]].context_length = Some(32768)
          /\ \A i \in 1..2 :
                /\ Len(ProvidersOf(modelHeap0, hfModels[i])) = 1
                /\ ResolvesTo(i, 1, p) /\ ~Has(Before(i, 1).context_length)
                /\ After(i, 1).context_length = Some(32768)


(***************************************************************************)
(* testAllProviders for every --batch-size                                 *)
(***************************************************************************)
\* A run with any of the batch sizes the parser passes on.
CommandLineInit == MainInitWith({BatchSizeOf(arg) : arg \in BatchSizeArgs})

SpecCommandLine == CommandLineInit /\ [][MainNext]_vars

\* C30: for every batch size the command line can supply, when
\* testAllProviders returns every selected pair has been probed.
C30_ReturnsWithEveryPairProbed ==
    Returned => \A j \in 1..Len(main.allPairs) : Probed(j)

\* What the loop needs in order to end with every pair probed: every pass
\* moves i forward.  It does not hold either: with batch size 0 the pass
\* leaves i where it was, with a negative size it moves i back, and the loop
\* goes on for ever; with NaN the first pass makes i NaN and the loop ends.
EveryBatchAdvances ==
    main.pc = "await" /\ main'.pc /= "await" => JsLess(main.i, main'.i)

LoopAdvances == [][EveryBatchAdvances]_vars

\* What holds: with a batch size of at least 1 the loop advances with every
\* pass and every selected pair has been probed at the return.
PositiveSizeProbesAll ==
    ~IsNaN(main.batchSize) /\ main.batchSize[1] >= 1 =>
        /\ Returned => \A j \in 1..Len(main.allPairs) : Probed(j)
        /\ Len(main.batches) <= Len(main.allPairs)

\* A run with batch size 0 or less back at the head of the loop after
\* MaxBatches passes, with pairs selected and i no further than at the start.
LoopWithoutProgress ==
    /\ main.pc = "batch" /\ Len(main.batches) = MaxBatches
    /\ main.allPairs /= << >> /\ JsLess(main.i, JsNum(1))
    /\ \E j \in 1..Len(main.allPairs) : ~Probed(j)

====
